---- MODULE Spec2Model ----
(***************************************************************************)
(* GenLayer DevKit: the commands `init`, `generate`, `test` and            *)
(* `templates` of src/genlayer_devkit.py, the setup script                 *)
(* src/setup_devkit.py, the contract of the `defi` template and the        *)
(* contracts SimpleDAO and WeatherInsurance of src/devkit_examples.py.     *)
(*                                                                         *)
(* Text is a sequence of one-character strings, so that str.format, the    *)
(* `in` operator, str.count and the lexical layer of compile() are         *)
(* computed character by character, as the interpreter computes them.      *)
(* Two elements stand for bytes that have no character of their own in a   *)
(* TLA+ string: NUL (the byte 0) and BAD (a byte that is not valid UTF-8). *)
(***************************************************************************)
EXTENDS Integers, Sequences, FiniteSets, TLC

VARIABLES
  fs,             \* the files under the working directory: path -> text or Absent
  contracts_dir,  \* whether the directory contracts/ exists
  pc,             \* the position of the running command, "idle" between commands
  argv,           \* the command line of the running (or last) command
  contract_code,  \* the local variable contract_code of generate and of test
  filepath,       \* the local variable filepath of generate
  handle,         \* the file object f of generate's with-block: "closed" or "open"
  stdout,         \* what the running (or last) command has printed
  exit_code,      \* the exit status of the last command: <<>> while one runs
  traceback,      \* the exception that ended the last command, or None
  registry,       \* the dict `templates` of generate
  fs0,            \* fs as it was when the running (or last) command started
  origin,         \* per path: the template key of the generate that wrote it last
  runs,           \* the number of commands started
  \* setup_devkit.py
  env,            \* the machine the script runs on: interpreter, pip, platform, shell
  step,           \* main: the index in `steps` of the step the loop is at
  success,        \* main: the local variable success
  \* a contract on the chain
  now,            \* gl.block_timestamp
  calls,          \* the number of transactions so far
  ret,            \* the value the last call returned
  \* the contract of the defi template
  balances,       \* self.balances: a dict, address -> int
  total_supply,   \* self.total_supply
  \* SimpleDAO
  members,        \* self.members: a dict, address -> voting power
  proposals,      \* self.proposals: a dict, proposal id -> proposal
  proposal_counter, \* self.proposal_counter
  \* WeatherInsurance
  policies,       \* self.policies: a dict, policy id -> policy
  policy_counter, \* self.policy_counter
  claims,         \* self.claims: a dict, policy id -> claim
  total_payouts   \* self.total_payouts

cli_vars == <<fs, contracts_dir, pc, argv, contract_code, filepath, handle, stdout,
              exit_code, traceback, registry, fs0, origin, runs>>

setup_vars == <<env, step, success>>

chain_vars == <<now, calls, ret>>

defi_vars == <<balances, total_supply>>

dao_vars == <<members, proposals, proposal_counter>>

insurance_vars == <<policies, policy_counter, claims, total_payouts>>

contract_vars == <<chain_vars, defi_vars, dao_vars, insurance_vars>>

vars == <<cli_vars, setup_vars, contract_vars>>

\* The number of commands a behaviour runs.
MaxRuns == 2

\* The number of fragments a drawn template body is made of.
MaxFrags == 3

\* The number of transactions sent to a contract.
MaxCalls == 6

\* The largest amount of a deposit, of a withdrawal and of a coverage.
MaxAmount == 2

\* The number of policies the insurance contract issues in a run.
MaxPolicies == 2

None == "None"
NUL == "NUL"
BAD == "BAD"

-----------------------------------------------------------------------------
(* Text helpers.                                                           *)

Min(a, b) == IF a < b THEN a ELSE b

\* s[i .. i + Len(p) - 1] = p
MatchAt(s, p, i) ==
  /\ i >= 1
  /\ i + Len(p) - 1 <= Len(s)
  /\ \A k \in 1..Len(p) : s[i + k - 1] = p[k]

\* Python: p in s
Contains(s, p) == \E i \in 1..(Len(s) - Len(p) + 1) : MatchAt(s, p, i)

\* Python: s.count(p) for a non-empty p, the number of non-overlapping
\* occurrences found scanning from the left.  The scan is a left fold over
\* the start positions lo..hi, split in halves to keep the evaluation shallow;
\* st.next is the first position a new occurrence may start at.
RECURSIVE CountScan(_, _, _, _, _)
CountScan(s, p, lo, hi, st) ==
  IF lo > hi THEN st
  ELSE IF lo = hi
    THEN IF lo >= st.next /\ MatchAt(s, p, lo)
           THEN [n |-> st.n + 1, next |-> lo + Len(p)]
           ELSE st
    ELSE LET mid == (lo + hi) \div 2
             left == CountScan(s, p, lo, mid, st)
         IN  IF left.next > hi THEN left
             ELSE CountScan(s, p, mid + 1, hi, left)

Count(s, p) == CountScan(s, p, 1, Len(s) - Len(p) + 1, [n |-> 0, next |-> 1]).n

-----------------------------------------------------------------------------
(* The template registry: the dict literal `templates` of generate.        *)

\* templates['basic']['code'], src/genlayer_devkit.py lines 237-252
basic_code ==
     <<"#"," ","{","{"," ","\"","D","e","p","e","n","d","s","\"",":"," ","\"","p","y","-","g","e","n","l","a","y","e","r",":","t","e","s","t","\""," ","}","}","\n">>
  \o <<"f","r","o","m"," ","g","e","n","l","a","y","e","r"," ","i","m","p","o","r","t"," ","*","\n">>
  \o <<"\n">>
  \o <<"c","l","a","s","s"," ","{","n","a","m","e","}","(","g","l",".","C","o","n","t","r","a","c","t",")",":","\n">>
  \o <<" "," "," "," ","d","e","f"," ","_","_","i","n","i","t","_","_","(","s","e","l","f",")",":","\n">>
  \o <<" "," "," "," "," "," "," "," ","s","e","l","f",".","d","a","t","a"," ","="," ","{","{","}","}","\n">>
  \o <<" "," "," "," ","\n">>
  \o <<" "," "," "," ","@","g","l",".","p","u","b","l","i","c",".","w","r","i","t","e","\n">>
  \o <<" "," "," "," ","d","e","f"," ","s","t","o","r","e","(","s","e","l","f",","," ","k","e","y",":"," ","s","t","r",","," ","v","a","l","u","e",":"," ","s","t","r",")",":","\n">>
  \o <<" "," "," "," "," "," "," "," ","s","e","l","f",".","d","a","t","a","[","k","e","y","]"," ","="," ","v","a","l","u","e","\n">>
  \o <<" "," "," "," "," "," "," "," ","r","e","t","u","r","n"," ","f","\"","S","t","o","r","e","d",":"," ","{","{","k","e","y","}","}"," ","="," ","{","{","v","a","l","u","e","}","}","\"","\n">>
  \o <<" "," "," "," ","\n">>
  \o <<" "," "," "," ","@","g","l",".","p","u","b","l","i","c",".","v","i","e","w","\n">>
  \o <<" "," "," "," ","d","e","f"," ","r","e","t","r","i","e","v","e","(","s","e","l","f",","," ","k","e","y",":"," ","s","t","r",")"," ","-",">"," ","s","t","r",":","\n">>
  \o <<" "," "," "," "," "," "," "," ","r","e","t","u","r","n"," ","s","e","l","f",".","d","a","t","a",".","g","e","t","(","k","e","y",","," ","\"","N","o","t"," ","f","o","u","n","d","\"",")","\n">>

\* templates['oracle']['code'], src/genlayer_devkit.py lines 256-284
oracle_code ==
     <<"#"," ","{","{"," ","\"","D","e","p","e","n","d","s","\"",":"," ","\"","p","y","-","g","e","n","l","a","y","e","r",":","t","e","s","t","\""," ","}","}","\n">>
  \o <<"f","r","o","m"," ","g","e","n","l","a","y","e","r"," ","i","m","p","o","r","t"," ","*","\n">>
  \o <<"\n">>
  \o <<"c","l","a","s","s"," ","{","n","a","m","e","}","(","g","l",".","C","o","n","t","r","a","c","t",")",":","\n">>
  \o <<" "," "," "," ","d","e","f"," ","_","_","i","n","i","t","_","_","(","s","e","l","f",")",":","\n">>
  \o <<" "," "," "," "," "," "," "," ","s","e","l","f",".","p","r","i","c","e","s"," ","="," ","{","{","}","}","\n">>
  \o <<" "," "," "," "," "," "," "," ","s","e","l","f",".","l","a","s","t","_","u","p","d","a","t","e"," ","="," ","0","\n">>
  \o <<" "," "," "," ","\n">>
  \o <<" "," "," "," ","@","g","l",".","p","u","b","l","i","c",".","w","r","i","t","e","\n">>
  \o <<" "," "," "," ","d","e","f"," ","f","e","t","c","h","_","p","r","i","c","e","(","s","e","l","f",","," ","t","o","k","e","n",":"," ","s","t","r",")"," ","-",">"," ","i","n","t",":","\n">>
  \o <<" "," "," "," "," "," "," "," ","\"","\"","\"","F","e","t","c","h"," ","t","o","k","e","n"," ","p","r","i","c","e"," ","u","s","i","n","g"," ","A","I","\"","\"","\"","\n">>
  \o <<" "," "," "," "," "," "," "," ","\n">>
  \o <<" "," "," "," "," "," "," "," ","p","r","o","m","p","t"," ","="," ","f","\"","G","e","t"," ","c","u","r","r","e","n","t"," ","p","r","i","c","e"," ","f","o","r"," ","{","{","t","o","k","e","n","}","}"," ","i","n"," ","U","S","D","\"","\n">>
  \o <<" "," "," "," "," "," "," "," ","\n">>
  \o <<" "," "," "," "," "," "," "," ","d","e","f"," ","g","e","t","_","p","r","i","c","e","(",")",":","\n">>
  \o <<" "," "," "," "," "," "," "," "," "," "," "," ","r","e","t","u","r","n"," ","g","l",".","e","x","e","c","_","p","r","o","m","p","t","(","p","r","o","m","p","t",")","\n">>
  \o <<" "," "," "," "," "," "," "," ","\n">>
  \o <<" "," "," "," "," "," "," "," ","p","r","i","c","e","_","s","t","r"," ","="," ","g","l",".","e","q","_","p","r","i","n","c","i","p","l","e","_","s","t","r","i","c","t","_","e","q","(","g","e","t","_","p","r","i","c","e",")","\n">>
  \o <<" "," "," "," "," "," "," "," ","p","r","i","c","e"," ","="," ","i","n","t","(","p","r","i","c","e","_","s","t","r",")","\n">>
  \o <<" "," "," "," "," "," "," "," ","\n">>
  \o <<" "," "," "," "," "," "," "," ","s","e","l","f",".","p","r","i","c","e","s","[","t","o","k","e","n","]"," ","="," ","p","r","i","c","e","\n">>
  \o <<" "," "," "," "," "," "," "," ","s","e","l","f",".","l","a","s","t","_","u","p","d","a","t","e"," ","="," ","g","l",".","b","l","o","c","k","_","t","i","m","e","s","t","a","m","p","\n">>
  \o <<" "," "," "," "," "," "," "," ","\n">>
  \o <<" "," "," "," "," "," "," "," ","r","e","t","u","r","n"," ","p","r","i","c","e","\n">>
  \o <<" "," "," "," ","\n">>
  \o <<" "," "," "," ","@","g","l",".","p","u","b","l","i","c",".","v","i","e","w","\n">>
  \o <<" "," "," "," ","d","e","f"," ","g","e","t","_","p","r","i","c","e","(","s","e","l","f",","," ","t","o","k","e","n",":"," ","s","t","r",")"," ","-",">"," ","i","n","t",":","\n">>
  \o <<" "," "," "," "," "," "," "," ","r","e","t","u","r","n"," ","s","e","l","f",".","p","r","i","c","e","s",".","g","e","t","(","t","o","k","e","n",","," ","0",")","\n">>

\* templates['insurance']['code'], src/genlayer_devkit.py lines 288-325
insurance_code ==
     <<"#"," ","{","{"," ","\"","D","e","p","e","n","d","s","\"",":"," ","\"","p","y","-","g","e","n","l","a","y","e","r",":","t","e","s","t","\""," ","}","}","\n">>
  \o <<"f","r","o","m"," ","g","e","n","l","a","y","e","r"," ","i","m","p","o","r","t"," ","*","\n">>
  \o <<"\n">>
  \o <<"c","l","a","s","s"," ","{","n","a","m","e","}","(","g","l",".","C","o","n","t","r","a","c","t",")",":","\n">>
  \o <<" "," "," "," ","d","e","f"," ","_","_","i","n","i","t","_","_","(","s","e","l","f",")",":","\n">>
  \o <<" "," "," "," "," "," "," "," ","s","e","l","f",".","p","o","l","i","c","i","e","s"," ","="," ","{","{","}","}","\n">>
  \o <<" "," "," "," "," "," "," "," ","s","e","l","f",".","p","o","l","i","c","y","_","c","o","u","n","t","e","r"," ","="," ","0","\n">>
  \o <<" "," "," "," ","\n">>
  \o <<" "," "," "," ","@","g","l",".","p","u","b","l","i","c",".","w","r","i","t","e","\n">>
  \o <<" "," "," "," ","d","e","f"," ","c","r","e","a","t","e","_","p","o","l","i","c","y","(","s","e","l","f",","," ","l","o","c","a","t","i","o","n",":"," ","s","t","r",","," ","c","o","v","e","r","a","g","e",":"," ","i","n","t",")"," ","-",">"," ","s","t","r",":","\n">>
  \o <<" "," "," "," "," "," "," "," ","s","e","l","f",".","p","o","l","i","c","y","_","c","o","u","n","t","e","r"," ","+","="," ","1","\n">>
  \o <<" "," "," "," "," "," "," "," ","p","o","l","i","c","y","_","i","d"," ","="," ","f","\"","P","O","L","-","{","{","s","e","l","f",".","p","o","l","i","c","y","_","c","o","u","n","t","e","r","}","}","\"","\n">>
  \o <<" "," "," "," "," "," "," "," ","\n">>
  \o <<" "," "," "," "," "," "," "," ","s","e","l","f",".","p","o","l","i","c","i","e","s","[","p","o","l","i","c","y","_","i","d","]"," ","="," ","{","{","\n">>
  \o <<" "," "," "," "," "," "," "," "," "," "," "," ","\"","l","o","c","a","t","i","o","n","\"",":"," ","l","o","c","a","t","i","o","n",",","\n">>
  \o <<" "," "," "," "," "," "," "," "," "," "," "," ","\"","c","o","v","e","r","a","g","e","\"",":"," ","c","o","v","e","r","a","g","e",",","\n">>
  \o <<" "," "," "," "," "," "," "," "," "," "," "," ","\"","a","c","t","i","v","e","\"",":"," ","T","r","u","e","\n">>
  \o <<" "," "," "," "," "," "," "," ","}","}","\n">>
  \o <<" "," "," "," "," "," "," "," ","\n">>
  \o <<" "," "," "," "," "," "," "," ","r","e","t","u","r","n"," ","p","o","l","i","c","y","_","i","d","\n">>
  \o <<" "," "," "," ","\n">>
  \o <<" "," "," "," ","@","g","l",".","p","u","b","l","i","c",".","w","r","i","t","e","\n">>
  \o <<" "," "," "," ","d","e","f"," ","c","h","e","c","k","_","w","e","a","t","h","e","r","(","s","e","l","f",","," ","p","o","l","i","c","y","_","i","d",":"," ","s","t","r",")"," ","-",">"," ","s","t","r",":","\n">>
  \o <<" "," "," "," "," "," "," "," ","i","f"," ","p","o","l","i","c","y","_","i","d"," ","n","o","t"," ","i","n"," ","s","e","l","f",".","p","o","l","i","c","i","e","s",":","\n">>
  \o <<" "," "," "," "," "," "," "," "," "," "," "," ","r","e","t","u","r","n"," ","\"","P","o","l","i","c","y"," ","n","o","t"," ","f","o","u","n","d","\"","\n">>
  \o <<" "," "," "," "," "," "," "," ","\n">>
  \o <<" "," "," "," "," "," "," "," ","#"," ","I","n"," ","p","r","o","d","u","c","t","i","o","n",":"," ","f","e","t","c","h"," ","r","e","a","l"," ","w","e","a","t","h","e","r"," ","v","i","a"," ","A","I","\n">>
  \o <<" "," "," "," "," "," "," "," ","#"," ","C","h","e","c","k"," ","i","f"," ","p","a","y","o","u","t"," ","c","o","n","d","i","t","i","o","n","s"," ","m","e","t","\n">>
  \o <<" "," "," "," "," "," "," "," ","\n">>
  \o <<" "," "," "," "," "," "," "," ","r","e","t","u","r","n"," ","\"","W","e","a","t","h","e","r"," ","c","h","e","c","k","e","d","\"","\n">>
  \o <<" "," "," "," ","\n">>
  \o <<" "," "," "," ","@","g","l",".","p","u","b","l","i","c",".","v","i","e","w","\n">>
  \o <<" "," "," "," ","d","e","f"," ","g","e","t","_","p","o","l","i","c","y","(","s","e","l","f",","," ","p","o","l","i","c","y","_","i","d",":"," ","s","t","r",")"," ","-",">"," ","s","t","r",":","\n">>
  \o <<" "," "," "," "," "," "," "," ","p","o","l","i","c","y"," ","="," ","s","e","l","f",".","p","o","l","i","c","i","e","s",".","g","e","t","(","p","o","l","i","c","y","_","i","d",")","\n">>
  \o <<" "," "," "," "," "," "," "," ","i","f"," ","n","o","t"," ","p","o","l","i","c","y",":","\n">>
  \o <<" "," "," "," "," "," "," "," "," "," "," "," ","r","e","t","u","r","n"," ","\"","N","o","t"," ","f","o","u","n","d","\"","\n">>
  \o <<" "," "," "," "," "," "," "," ","r","e","t","u","r","n"," ","f","\"","L","o","c","a","t","i","o","n",":"," ","{","{","p","o","l","i","c","y","[","'","l","o","c","a","t","i","o","n","'","]","}","}",","," ","C","o","v","e","r","a","g","e",":"," ","{","{","p","o","l","i","c","y","[","'","c","o","v","e","r","a","g","e","'","]","}","}","\"","\n">>

\* templates['defi']['code'], src/genlayer_devkit.py lines 329-364
defi_code ==
     <<"#"," ","{","{"," ","\"","D","e","p","e","n","d","s","\"",":"," ","\"","p","y","-","g","e","n","l","a","y","e","r",":","t","e","s","t","\""," ","}","}","\n">>
  \o <<"f","r","o","m"," ","g","e","n","l","a","y","e","r"," ","i","m","p","o","r","t"," ","*","\n">>
  \o <<"\n">>
  \o <<"c","l","a","s","s"," ","{","n","a","m","e","}","(","g","l",".","C","o","n","t","r","a","c","t",")",":","\n">>
  \o <<" "," "," "," ","d","e","f"," ","_","_","i","n","i","t","_","_","(","s","e","l","f",")",":","\n">>
  \o <<" "," "," "," "," "," "," "," ","s","e","l","f",".","b","a","l","a","n","c","e","s"," ","="," ","{","{","}","}","\n">>
  \o <<" "," "," "," "," "," "," "," ","s","e","l","f",".","t","o","t","a","l","_","s","u","p","p","l","y"," ","="," ","0","\n">>
  \o <<" "," "," "," ","\n">>
  \o <<" "," "," "," ","@","g","l",".","p","u","b","l","i","c",".","w","r","i","t","e","\n">>
  \o <<" "," "," "," ","d","e","f"," ","d","e","p","o","s","i","t","(","s","e","l","f",","," ","a","m","o","u","n","t",":"," ","i","n","t",")",":","\n">>
  \o <<" "," "," "," "," "," "," "," ","u","s","e","r"," ","="," ","g","l",".","m","e","s","s","a","g","e","_","s","e","n","d","e","r","_","a","d","d","r","e","s","s","\n">>
  \o <<" "," "," "," "," "," "," "," ","\n">>
  \o <<" "," "," "," "," "," "," "," ","i","f"," ","u","s","e","r"," ","n","o","t"," ","i","n"," ","s","e","l","f",".","b","a","l","a","n","c","e","s",":","\n">>
  \o <<" "," "," "," "," "," "," "," "," "," "," "," ","s","e","l","f",".","b","a","l","a","n","c","e","s","[","u","s","e","r","]"," ","="," ","0","\n">>
  \o <<" "," "," "," "," "," "," "," ","\n">>
  \o <<" "," "," "," "," "," "," "," ","s","e","l","f",".","b","a","l","a","n","c","e","s","[","u","s","e","r","]"," ","+","="," ","a","m","o","u","n","t","\n">>
  \o <<" "," "," "," "," "," "," "," ","s","e","l","f",".","t","o","t","a","l","_","s","u","p","p","l","y"," ","+","="," ","a","m","o","u","n","t","\n">>
  \o <<" "," "," "," "," "," "," "," ","\n">>
  \o <<" "," "," "," "," "," "," "," ","r","e","t","u","r","n"," ","f","\"","D","e","p","o","s","i","t","e","d"," ","{","{","a","m","o","u","n","t","}","}","\"","\n">>
  \o <<" "," "," "," ","\n">>
  \o <<" "," "," "," ","@","g","l",".","p","u","b","l","i","c",".","w","r","i","t","e","\n">>
  \o <<" "," "," "," ","d","e","f"," ","w","i","t","h","d","r","a","w","(","s","e","l","f",","," ","a","m","o","u","n","t",":"," ","i","n","t",")",":","\n">>
  \o <<" "," "," "," "," "," "," "," ","u","s","e","r"," ","="," ","g","l",".","m","e","s","s","a","g","e","_","s","e","n","d","e","r","_","a","d","d","r","e","s","s","\n">>
  \o <<" "," "," "," "," "," "," "," ","\n">>
  \o <<" "," "," "," "," "," "," "," ","i","f"," ","u","s","e","r"," ","n","o","t"," ","i","n"," ","s","e","l","f",".","b","a","l","a","n","c","e","s"," ","o","r"," ","s","e","l","f",".","b","a","l","a","n","c","e","s","[","u","s","e","r","]"," ","<"," ","a","m","o","u","n","t",":","\n">>
  \o <<" "," "," "," "," "," "," "," "," "," "," "," ","r","e","t","u","r","n"," ","\"","I","n","s","u","f","f","i","c","i","e","n","t"," ","b","a","l","a","n","c","e","\"","\n">>
  \o <<" "," "," "," "," "," "," "," ","\n">>
  \o <<" "," "," "," "," "," "," "," ","s","e","l","f",".","b","a","l","a","n","c","e","s","[","u","s","e","r","]"," ","-","="," ","a","m","o","u","n","t","\n">>
  \o <<" "," "," "," "," "," "," "," ","s","e","l","f",".","t","o","t","a","l","_","s","u","p","p","l","y"," ","-","="," ","a","m","o","u","n","t","\n">>
  \o <<" "," "," "," "," "," "," "," ","\n">>
  \o <<" "," "," "," "," "," "," "," ","r","e","t","u","r","n"," ","f","\"","W","i","t","h","d","r","a","w","n"," ","{","{","a","m","o","u","n","t","}","}","\"","\n">>
  \o <<" "," "," "," ","\n">>
  \o <<" "," "," "," ","@","g","l",".","p","u","b","l","i","c",".","v","i","e","w","\n">>
  \o <<" "," "," "," ","d","e","f"," ","g","e","t","_","b","a","l","a","n","c","e","(","s","e","l","f",","," ","a","d","d","r","e","s","s",":"," ","s","t","r",")"," ","-",">"," ","i","n","t",":","\n">>
  \o <<" "," "," "," "," "," "," "," ","r","e","t","u","r","n"," ","s","e","l","f",".","b","a","l","a","n","c","e","s",".","g","e","t","(","a","d","d","r","e","s","s",","," ","0",")","\n">>

\* The registry, and its keys in the dict's insertion order.
templates ==
  [basic     |-> [description |-> "Basic contract with storage",      code |-> basic_code],
   oracle    |-> [description |-> "Price oracle with AI integration", code |-> oracle_code],
   insurance |-> [description |-> "Weather-based insurance contract", code |-> insurance_code],
   defi      |-> [description |-> "Simple DeFi lending contract",     code |-> defi_code]]

TemplateKeys == <<"basic", "oracle", "insurance", "defi">>

\* reg.keys()
IsKey(reg, k) == k \in DOMAIN reg
\* A list of keys written by hand, one key short of the registry.
Keys_Hardcoded(reg) == <<"basic", "oracle", "defi">>

Keys(reg) == SelectSeq(TemplateKeys, LAMBDA k : IsKey(reg, k))

-----------------------------------------------------------------------------
(* str.format(name=value), as CPython's MarkupIterator_next and            *)
(* parse_field scan a format string: one pass over the body, left to       *)
(* right.  The substituted value is appended to the output and the scan    *)
(* goes on in the body, after the field.                                   *)
(*                                                                         *)
(*   mode "lit"    literal text                                            *)
(*   mode "open"   a '{' was read, the next character decides: a second    *)
(*                 '{' is an escaped brace, anything else starts a field   *)
(*   mode "close"  a '}' was read outside a field: a second '}' is an      *)
(*                 escaped brace, anything else is an error                *)
(*   mode "field"  inside a replacement field, fld is its name so far      *)
(*                                                                         *)
(* Only fields that are a plain name are modelled: a field holding an      *)
(* attribute, an index, a conversion or a format spec ('.', '[', '!', ':') *)
(* ends the scan with exc = "Unmodelled"; no format string drawn below     *)
(* holds one.                                                              *)

Digit == {"0", "1", "2", "3", "4", "5", "6", "7", "8", "9"}

FieldName == <<"n", "a", "m", "e">>

\* The state of the scan between two characters, and out: the output of the
\* last step (of the last range of steps).
FormatInit == [mode |-> "lit", fld |-> <<>>, exc |-> None, out |-> <<>>]

Emit(mode, fld, out) == [mode |-> mode, fld |-> fld, exc |-> None, out |-> out]

Fail(exc) == [mode |-> "lit", fld |-> <<>>, exc |-> exc, out |-> <<>>]

\* The field fld is complete: look it up in the keyword arguments {name: value}.
\* An empty or numeric field indexes the (empty) positional arguments.
GetField(fld, value) ==
  IF fld = FieldName THEN Emit("lit", <<>>, value)
  ELSE IF \A k \in 1..Len(fld) : fld[k] \in Digit THEN Fail("IndexError")
  ELSE Fail("KeyError")

\* One character c of a field whose name so far is fld.
FieldStep(fld, c, value) ==
  IF c = "}" THEN GetField(fld, value)
  ELSE IF c = "{" THEN Fail("ValueError")               \* unexpected '{' in field name
  ELSE IF c \in {".", "[", "!", ":"} THEN Fail("Unmodelled")
  ELSE Emit("field", Append(fld, c), <<>>)

\* A scan that copies an escaped '{' as it stands, both characters.
FormatStep_KeepDoubled(st, c, value) ==
  IF st.mode = "lit" THEN
    IF c = "{" THEN Emit("open", <<>>, <<>>)
    ELSE IF c = "}" THEN Emit("close", <<>>, <<>>)
    ELSE Emit("lit", <<>>, <<c>>)
  ELSE IF st.mode = "open" THEN
    IF c = "{" THEN Emit("lit", <<>>, <<"{", "{">>)
    ELSE FieldStep(<<>>, c, value)
  ELSE IF st.mode = "close" THEN
    IF c = "}" THEN Emit("lit", <<>>, <<"}">>)
    ELSE Fail("ValueError")
  ELSE FieldStep(st.fld, c, value)

\* A scan that knows the escape of '{' only: a '}' outside a field is
\* literal text.
FormatStep_CloseIsLiteral(st, c, value) ==
  IF st.mode = "lit" THEN
    IF c = "{" THEN Emit("open", <<>>, <<>>)
    ELSE Emit("lit", <<>>, <<c>>)
  ELSE IF st.mode = "open" THEN
    IF c = "{" THEN Emit("lit", <<>>, <<"{">>)
    ELSE FieldStep(<<>>, c, value)
  ELSE FieldStep(st.fld, c, value)

FormatStep(st, c, value) ==
  IF st.mode = "lit" THEN
    IF c = "{" THEN Emit("open", <<>>, <<>>)
    ELSE IF c = "}" THEN Emit("close", <<>>, <<>>)
    ELSE Emit("lit", <<>>, <<c>>)
  ELSE IF st.mode = "open" THEN
    IF c = "{" THEN Emit("lit", <<>>, <<"{">>)
    ELSE FieldStep(<<>>, c, value)
  ELSE IF st.mode = "close" THEN
    IF c = "}" THEN Emit("lit", <<>>, <<"}">>)
    ELSE Fail("ValueError")                             \* Single '}' encountered
  ELSE FieldStep(st.fld, c, value)

\* The left fold of FormatStep over body[lo..hi], split in halves; out is the
\* output of the whole range.  The scan stops at the first error.
RECURSIVE FormatScan(_, _, _, _, _)
FormatScan(body, value, lo, hi, st) ==
  IF lo > hi THEN [st EXCEPT !.out = <<>>]
  ELSE IF lo = hi THEN FormatStep(st, body[lo], value)
  ELSE LET mid == (lo + hi) \div 2
           left == FormatScan(body, value, lo, mid, st)
       IN  IF left.exc # None THEN left
           ELSE LET right == FormatScan(body, value, mid + 1, hi, left)
                IN  IF right.exc # None THEN right
                    ELSE [right EXCEPT !.out = left.out \o right.out]

\* The end of the format string: a pending '{', '}' or field is an error.
FormatEnd(st) ==
  IF st.exc # None THEN [exc |-> st.exc, text |-> <<>>]
  ELSE IF st.mode # "lit" THEN [exc |-> "ValueError", text |-> <<>>]
  ELSE [exc |-> None, text |-> st.out]

\* A renderer that formats its own output once more.
Format_Rescan(body, value) ==
  LET once == FormatEnd(FormatScan(body, value, 1, Len(body), FormatInit))
  IN  IF once.exc # None THEN once
      ELSE FormatEnd(FormatScan(once.text, value, 1, Len(once.text), FormatInit))

\* Python: body.format(name=value)
Format(body, value) == FormatEnd(FormatScan(body, value, 1, Len(body), FormatInit))

-----------------------------------------------------------------------------
(* compile(source, filename, 'exec'): the host parser.  The model is its   *)
(* lexical layer (comments, string literals, bracket nesting, characters   *)
(* that start no token, line continuation) and the header of a class       *)
(* statement, the one place a rendered name lands in.  It accepts every    *)
(* text the parser accepts; what it rejects, the parser rejects with       *)
(* SyntaxError.                                                            *)

Letter ==
  {"a", "b", "c", "d", "e", "f", "g", "h", "i", "j", "k", "l", "m", "n", "o", "p", "q", "r", "s", "t", "u", "v", "w", "x", "y", "z",
   "A", "B", "C", "D", "E", "F", "G", "H", "I", "J", "K", "L", "M", "N", "O", "P", "Q", "R", "S", "T", "U", "V", "W", "X", "Y", "Z"}

IdentChar == Letter \cup Digit \cup {"_"}

\* keyword.kwlist
Keywords ==
  {<<"F","a","l","s","e">>, <<"N","o","n","e">>, <<"T","r","u","e">>,
   <<"a","n","d">>, <<"a","s">>, <<"a","s","s","e","r","t">>,
   <<"a","s","y","n","c">>, <<"a","w","a","i","t">>, <<"b","r","e","a","k">>,
   <<"c","l","a","s","s">>, <<"c","o","n","t","i","n","u","e">>, <<"d","e","f">>,
   <<"d","e","l">>, <<"e","l","i","f">>, <<"e","l","s","e">>,
   <<"e","x","c","e","p","t">>, <<"f","i","n","a","l","l","y">>, <<"f","o","r">>,
   <<"f","r","o","m">>, <<"g","l","o","b","a","l">>, <<"i","f">>,
   <<"i","m","p","o","r","t">>, <<"i","n">>, <<"i","s">>,
   <<"l","a","m","b","d","a">>, <<"n","o","n","l","o","c","a","l">>, <<"n","o","t">>,
   <<"o","r">>, <<"p","a","s","s">>, <<"r","a","i","s","e">>,
   <<"r","e","t","u","r","n">>, <<"t","r","y">>, <<"w","h","i","l","e">>,
   <<"w","i","t","h">>, <<"y","i","e","l","d">>}

\* str.isidentifier(), and not a reserved word
IsIdentifier(w) ==
  /\ w # <<>>
  /\ \A k \in 1..Len(w) : w[k] \in IdentChar
  /\ w[1] \notin Digit
  /\ w \notin Keywords

Opener == [c \in {")", "]", "}"} |-> CASE c = ")" -> "(" [] c = "]" -> "[" [] OTHER -> "{"]

\* The first position at or after i whose character is not in the set cs
\* (Len(s) + 1 if there is none).
SkipWhile(s, i, cs) ==
  LET stops == {k \in i..Len(s) : s[k] \notin cs}
  IN  IF stops = {} THEN Len(s) + 1
      ELSE CHOOSE k \in stops : \A m \in stops : k <= m

\* s[i..] starts a class statement, "class" and a blank: the class name must
\* be an identifier that is followed by '(' or ':'.
ClassHeaderOk(s, i) ==
  LET j == SkipWhile(s, i + 5, {" ", "\t"})
      e == SkipWhile(s, j, IdentChar)
      n == SkipWhile(s, e, {" ", "\t"})
  IN  /\ IsIdentifier(SubSeq(s, j, e - 1))
      /\ n <= Len(s)
      /\ s[n] \in {"(", ":"}

LexInit ==
  [mode |-> "code", q |-> "", triple |-> FALSE, skip |-> 0, stack |-> <<>>,
   bol |-> TRUE, exc |-> None]

LexCode(s, i, st) ==
  LET c == s[i] IN
  IF c = "#" THEN [st EXCEPT !.mode = "comment"]
  ELSE IF c \in {"\"", "'"} THEN
    IF MatchAt(s, <<c, c, c>>, i)
      THEN [st EXCEPT !.mode = "str", !.q = c, !.triple = TRUE, !.skip = 2, !.bol = FALSE]
      ELSE [st EXCEPT !.mode = "str", !.q = c, !.triple = FALSE, !.bol = FALSE]
  ELSE IF c \in {"(", "[", "{"} THEN
    [st EXCEPT !.stack = Append(st.stack, c), !.bol = FALSE]
  ELSE IF c \in {")", "]", "}"} THEN
    IF st.stack # <<>> /\ st.stack[Len(st.stack)] = Opener[c]
      THEN [st EXCEPT !.stack = SubSeq(st.stack, 1, Len(st.stack) - 1), !.bol = FALSE]
      ELSE [st EXCEPT !.exc = "SyntaxError"]            \* unmatched or mismatched bracket
  ELSE IF c = "\n" THEN
    IF st.stack = <<>> THEN [st EXCEPT !.bol = TRUE] ELSE st
  ELSE IF c \in {" ", "\t"} THEN st
  ELSE IF c = "\\" THEN
    IF MatchAt(s, <<"\\", "\n">>, i) THEN [st EXCEPT !.skip = 1]
    ELSE [st EXCEPT !.exc = "SyntaxError"]              \* unexpected character after '\'
  ELSE IF c \in {"$", "?"} THEN [st EXCEPT !.exc = "SyntaxError"]
  ELSE IF st.bol /\ st.stack = <<>> /\ MatchAt(s, <<"c", "l", "a", "s", "s", " ">>, i) THEN
    IF ClassHeaderOk(s, i) THEN [st EXCEPT !.bol = FALSE]
    ELSE [st EXCEPT !.exc = "SyntaxError"]
  ELSE [st EXCEPT !.bol = FALSE]

LexStr(s, i, st) ==
  LET c == s[i] IN
  IF c = "\\" THEN [st EXCEPT !.skip = 1]
  ELSE IF st.triple THEN
    IF MatchAt(s, <<st.q, st.q, st.q>>, i) THEN [st EXCEPT !.mode = "code", !.skip = 2]
    ELSE st
  ELSE IF c = st.q THEN [st EXCEPT !.mode = "code"]
  ELSE IF c = "\n" THEN [st EXCEPT !.exc = "SyntaxError"]  \* unterminated string literal
  ELSE st

LexStep(s, i, st) ==
  IF st.exc # None THEN st
  ELSE IF st.skip > 0 THEN [st EXCEPT !.skip = st.skip - 1]
  ELSE IF st.mode = "comment" THEN
    IF s[i] = "\n" THEN [st EXCEPT !.mode = "code", !.bol = (st.stack = <<>>)] ELSE st
  ELSE IF st.mode = "str" THEN LexStr(s, i, st)
  ELSE LexCode(s, i, st)

\* The left fold of LexStep over the positions lo..hi, split in halves.
RECURSIVE LexScan(_, _, _, _)
LexScan(s, lo, hi, st) ==
  IF lo > hi THEN st
  ELSE IF lo = hi THEN LexStep(s, lo, st)
  ELSE LET mid == (lo + hi) \div 2
           left == LexScan(s, lo, mid, st)
       IN  IF left.exc # None THEN left
           ELSE LexScan(s, mid + 1, hi, left)

\* The end of the source: an open string literal or bracket is an error.
LexEnd(st) ==
  IF st.exc # None THEN st.exc
  ELSE IF st.mode = "str" \/ st.stack # <<>> THEN "SyntaxError"
  ELSE None

\* The exception compile() raises on the source (None: it returns code).  A
\* source with a null byte raises ValueError up to Python 3.11 and
\* SyntaxError from 3.12 on.
Compile(source) ==
  IF \E k \in 1..Len(source) : source[k] = NUL
    THEN {"ValueError", "SyntaxError"}
    ELSE {LexEnd(LexScan(source, 1, Len(source), LexInit))}

-----------------------------------------------------------------------------
(* The command lines and the files.                                        *)

\* Values of --name: two identifiers, a reserved word and a name that is
\* itself a replacement field.
Names == {<<"F","o","o">>, <<"T","_","1">>, <<"i","f">>, <<"{","x","}">>}

\* Values of --type: the registered keys and one that is not registered.
Types == {"basic", "oracle", "insurance", "defi", "bogus"}

\* Files that exist before any command runs, in the working directory:
\* an empty file, a file with a null byte, a file with a byte that is not
\* UTF-8, a file in another language, and Python text that is no contract.
HandFiles ==
  <<"e","m","p","t","y">> :> <<>> @@
  <<"n","u","l">> :> (<<"x"," ","="," ","1">> \o <<NUL, "\n">>) @@
  <<"b","a","d">> :> (<<"#"," ">> \o <<BAD, "\n">>) @@
  <<"o","t","h","e","r">> :> <<"f","u","n","c","t","i","o","n"," ","f","(",")"," ","{","\n"," "," ","r","e","t","u","r","n"," ","'","a",";","\n","}","\n">> @@
  <<"p","l","a","i","n">> :> <<"x"," ","="," ","1","\n">>

\* A path is the directory and the stem of a file named <stem>.py.
Path(dir, stem) == [dir |-> dir, stem |-> stem]

\* No file at a path; no text yet in a local variable; no path yet.
Absent == <<"Absent">>
NoText == <<"NoText">>
NoPath == Path("", <<>>)

Paths(names) ==
  {Path(d, n) : d \in {"contracts", "."}, n \in names} \cup
  {Path(".", h) : h \in DOMAIN HandFiles}

InitFs(names) ==
  [p \in Paths(names) |->
     IF p.dir = "." /\ p.stem \in DOMAIN HandFiles THEN HandFiles[p.stem] ELSE Absent]

\* One printed line: the printing function, the fixed text, the value put in.
Msg(fn, msg, arg) == [fn |-> fn, msg |-> msg, arg |-> arg]

Printed(fn, msg) == \E k \in 1..Len(stdout) : stdout[k].fn = fn /\ stdout[k].msg = msg

NoCommand == [cmd |-> "none"]

\* A Python dict is a function on the set of its keys; {} is the empty one.
EmptyDict == <<>>

\* setup_devkit.py is not running.
NoEnv == [system |-> "none"]

SetupIdle == env = NoEnv /\ step = 0 /\ success = TRUE

\* The three contracts as their __init__ leaves them, before any transaction.
DefiInit == balances = EmptyDict /\ total_supply = 0

DaoInit == members = EmptyDict /\ proposals = EmptyDict /\ proposal_counter = 0

InsuranceInit ==
  /\ policies = EmptyDict
  /\ policy_counter = 0
  /\ claims = EmptyDict
  /\ total_payouts = 0

\* No call has returned yet.
NoReturn == [msg |-> "none"]

ChainInit == now = 0 /\ calls = 0 /\ ret = NoReturn

ContractsInit == ChainInit /\ DefiInit /\ DaoInit /\ InsuranceInit

InitWith(reg, names) ==
  /\ SetupIdle
  /\ ContractsInit
  /\ registry = reg
  /\ contracts_dir \in BOOLEAN
  /\ fs = InitFs(names)
  /\ fs0 = InitFs(names)
  /\ pc = "idle"
  /\ argv = NoCommand
  /\ contract_code = NoText
  /\ filepath = NoPath
  /\ handle = "closed"
  /\ stdout = <<>>
  /\ exit_code = <<>>
  /\ traceback = None
  /\ origin = [p \in Paths(names) |-> None]
  /\ runs = 0

Init == InitWith(templates, Names)

\* A command starts: a fresh process, with the files as the last one left them.
Start(command) ==
  /\ pc = "idle"
  /\ runs < MaxRuns
  /\ runs' = runs + 1
  /\ argv' = command
  /\ traceback' = None
  /\ contract_code' = NoText
  /\ filepath' = NoPath
  /\ fs0' = fs

\* The command returns: click exits with status 0.
Return == pc' = "idle" /\ exit_code' = <<0>> /\ traceback' = None

\* An exception leaves the command: the interpreter prints the traceback and
\* exits with status 1.
Raise(exc) == pc' = "idle" /\ exit_code' = <<1>> /\ traceback' = exc

-----------------------------------------------------------------------------
(* generate --type <type> --name <name>                                    *)

GenerateBegin(type, name) ==
  /\ Start([cmd |-> "generate", type |-> type, name |-> name])
  /\ stdout' = <<Msg("echo", "Generating Contract", <<>>)>>
  /\ exit_code' = <<>>
  /\ pc' = "gen_lookup"
  /\ UNCHANGED <<fs, contracts_dir, registry, handle, origin>>
  /\ UNCHANGED <<setup_vars, contract_vars>>

\* if type not in templates: ... return
GenerateLookup ==
  /\ pc = "gen_lookup"
  /\ IF argv.type \notin DOMAIN registry
       THEN /\ stdout' = stdout \o
                 <<Msg("print_error", "Unknown template type", argv.type),
                   Msg("print_info", "Available types", Keys(registry))>>
            /\ Return
       ELSE /\ pc' = "gen_render"
            /\ UNCHANGED <<stdout, exit_code, traceback>>
  /\ UNCHANGED <<fs, contracts_dir, registry, argv, contract_code, filepath, handle,
                 fs0, origin, runs>>
  /\ UNCHANGED <<setup_vars, contract_vars>>

\* The renderings of the literal registry, computed once (a definition
\* without parameters is evaluated once).
Rendered ==
  [type \in DOMAIN templates |-> [name \in Names |-> Format(templates[type].code, name)]]

\* reg[type]['code'].format(name=name)
Render(reg, type, name) ==
  IF reg = templates /\ name \in Names THEN Rendered[type][name]
  ELSE Format(reg[type].code, name)

\* A generate that opens the target before it formats the template.
GenerateRender_OpenFirst ==
  /\ pc = "gen_render"
  /\ fs' = [fs EXCEPT ![Path(IF contracts_dir THEN "contracts" ELSE ".", argv.name)] = <<>>]
  /\ LET r == Render(registry, argv.type, argv.name)
     IN  IF r.exc = None
           THEN /\ contract_code' = r.text
                /\ pc' = "gen_open"
                /\ UNCHANGED <<exit_code, traceback>>
           ELSE /\ Raise(r.exc)
                /\ UNCHANGED contract_code
  /\ UNCHANGED <<contracts_dir, registry, argv, filepath, handle, stdout,
                 fs0, origin, runs>>
  /\ UNCHANGED <<setup_vars, contract_vars>>

\* template = templates[type]; contract_code = template['code'].format(name=name)
GenerateRender ==
  /\ pc = "gen_render"
  /\ LET r == Render(registry, argv.type, argv.name)
     IN  IF r.exc = None
           THEN /\ contract_code' = r.text
                /\ pc' = "gen_open"
                /\ UNCHANGED <<exit_code, traceback>>
           ELSE /\ Raise(r.exc)
                /\ UNCHANGED contract_code
  /\ UNCHANGED <<fs, contracts_dir, registry, argv, filepath, handle, stdout,
                 fs0, origin, runs>>
  /\ UNCHANGED <<setup_vars, contract_vars>>

\* open(path, 'a'): the file is created, and kept as it is if it exists
OpenW_Append(files, path) ==
  IF files[path] = Absent THEN [files EXCEPT ![path] = <<>>] ELSE files

\* open(path, 'w'): the file is created, or truncated if it exists
OpenW(files, path) == [files EXCEPT ![path] = <<>>]

\* filepath = contracts_dir / f"{name}.py", in the working directory when
\* contracts/ does not exist; with open(filepath, 'w') as f
GenerateOpen ==
  /\ pc = "gen_open"
  /\ LET path == Path(IF contracts_dir THEN "contracts" ELSE ".", argv.name)
     IN  /\ filepath' = path
         /\ fs' = OpenW(fs, path)
  /\ stdout' = IF contracts_dir THEN stdout
               ELSE Append(stdout, Msg("print_warning", "No contracts/ directory", <<>>))
  /\ handle' = "open"
  /\ pc' = "gen_write"
  /\ UNCHANGED <<contracts_dir, registry, argv, contract_code, exit_code, traceback,
                 fs0, origin, runs>>
  /\ UNCHANGED <<setup_vars, contract_vars>>

\* f.write(contract_code), and the with-block closes f
GenerateWrite ==
  /\ pc = "gen_write"
  /\ fs' = [fs EXCEPT ![filepath] = fs[filepath] \o contract_code]
  /\ handle' = "closed"
  /\ pc' = "gen_finish"
  /\ UNCHANGED <<contracts_dir, registry, argv, contract_code, filepath, stdout,
                 exit_code, traceback, fs0, origin, runs>>
  /\ UNCHANGED <<setup_vars, contract_vars>>

GenerateFinish ==
  /\ pc = "gen_finish"
  /\ stdout' = stdout \o
       <<Msg("print_success", "Generated", filepath),
         Msg("print_info", "Template", registry[argv.type].description),
         Msg("echo", "Contract generated!", <<>>),
         Msg("echo", "Next steps", <<>>),
         Msg("echo", "genlayer test", filepath),
         Msg("echo", "genlayer deploy", filepath)>>
  /\ origin' = [origin EXCEPT ![filepath] = argv.type]
  /\ Return
  /\ UNCHANGED <<fs, contracts_dir, registry, argv, contract_code, filepath, handle,
                 fs0, runs>>
  /\ UNCHANGED <<setup_vars, contract_vars>>

-----------------------------------------------------------------------------
(* test <contract_file>                                                    *)

\* f.read() in text mode.  A byte that is not valid in the locale's encoding
\* raises UnicodeDecodeError (UTF-8); a single-byte encoding decodes every
\* byte to some character.
Decoded(c) == IF c = BAD THEN "U+00FF" ELSE c

Read(bytes) ==
  IF \E k \in 1..Len(bytes) : bytes[k] = BAD
    THEN {[exc |-> "UnicodeDecodeError", text |-> <<>>],
          [exc |-> None, text |-> [k \in 1..Len(bytes) |-> Decoded(bytes[k])]]}
    ELSE {[exc |-> None, text |-> bytes]}

\* The required elements: (pattern, description)
checks ==
  <<[pattern |-> <<"g","l",".","C","o","n","t","r","a","c","t">>, description |-> "Inherits from gl.Contract"],
    [pattern |-> <<"@","g","l",".","p","u","b","l","i","c">>, description |-> "Has public methods"],
    [pattern |-> <<"d","e","f"," ","_","_","i","n","i","t","_","_">>, description |-> "Has constructor"]>>

\* The marker of the methods that write only.
PublicMarker_WriteOnly == <<"@","g","l",".","p","u","b","l","i","c",".","w","r","i","t","e">>

\* contract_code.count('@gl.public')
PublicMarker == <<"@","g","l",".","p","u","b","l","i","c">>

\* if not os.path.exists(contract_file): ... return
TestBegin(contract_file) ==
  /\ Start([cmd |-> "test", contract_file |-> contract_file])
  /\ IF fs[contract_file] = Absent
       THEN /\ stdout' = <<Msg("echo", "Testing Contract", <<>>),
                           Msg("print_error", "Contract file not found", contract_file)>>
            /\ pc' = "idle"
            /\ exit_code' = <<0>>
       ELSE /\ stdout' = <<Msg("echo", "Testing Contract", <<>>),
                           Msg("print_info", "Testing", contract_file)>>
            /\ pc' = "test_read"
            /\ exit_code' = <<>>
  /\ UNCHANGED <<fs, contracts_dir, registry, handle, origin>>
  /\ UNCHANGED <<setup_vars, contract_vars>>

\* with open(contract_file, 'r') as f: contract_code = f.read()
TestRead ==
  /\ pc = "test_read"
  /\ \E r \in Read(fs[argv.contract_file]) :
       IF r.exc = None
         THEN /\ contract_code' = r.text
              /\ pc' = "test_syntax"
              /\ UNCHANGED <<exit_code, traceback>>
         ELSE /\ Raise(r.exc)
              /\ UNCHANGED contract_code
  /\ UNCHANGED <<fs, contracts_dir, registry, argv, filepath, handle, stdout,
                 fs0, origin, runs>>
  /\ UNCHANGED <<setup_vars, contract_vars>>

\* The texts test reads in the files generate writes from the literal registry
\* and in the files that exist from the start, and compile() on each of them,
\* computed once.
Texts ==
  {Rendered[type][name].text : type \in DOMAIN templates, name \in Names} \cup
  UNION {{r.text : r \in Read(HandFiles[h])} : h \in DOMAIN HandFiles}

Compiled == [source \in Texts |-> Compile(source)]

CompileOf(source) == IF source \in Texts THEN Compiled[source] ELSE Compile(source)

\* try: compile(...) except SyntaxError as e: print_error(...); return
TestSyntax ==
  /\ pc = "test_syntax"
  /\ \E e \in CompileOf(contract_code) :
       IF e = None
         THEN /\ stdout' = Append(stdout, Msg("print_success", "Syntax check passed", <<>>))
              /\ pc' = "test_checks"
              /\ UNCHANGED <<exit_code, traceback>>
       ELSE IF e = "SyntaxError"
         THEN /\ stdout' = Append(stdout, Msg("print_error", "Syntax error", <<>>))
              /\ Return
         ELSE /\ Raise(e)
              /\ UNCHANGED stdout
  /\ UNCHANGED <<fs, contracts_dir, registry, argv, contract_code, filepath, handle,
                 fs0, origin, runs>>
  /\ UNCHANGED <<setup_vars, contract_vars>>

\* for pattern, description in checks: print_success or print_warning
CheckLine(check, code) ==
  IF Contains(code, check.pattern)
    THEN Msg("print_success", check.description, <<>>)
    ELSE Msg("print_warning", "Missing", check.description)

\* The lines of the required elements and of the count of public functions.
ReportLines(code) ==
  [k \in 1..Len(checks) |-> CheckLine(checks[k], code)] \o
  <<Msg("print_info", "Public functions", Count(code, PublicMarker))>>

Reports == [code \in Texts |-> ReportLines(code)]

ReportOf(code) == IF code \in Texts THEN Reports[code] ELSE ReportLines(code)

\* The required elements, the count of public functions, and the closing lines.
TestChecks ==
  /\ pc = "test_checks"
  /\ stdout' = stdout \o ReportOf(contract_code) \o
                <<Msg("echo", "Basic tests passed", <<>>),
                  Msg("echo", "Note: For full testing, deploy to testnet", <<>>)>>
  /\ Return
  /\ UNCHANGED <<fs, contracts_dir, registry, argv, contract_code, filepath, handle,
                 fs0, origin, runs>>
  /\ UNCHANGED <<setup_vars, contract_vars>>

-----------------------------------------------------------------------------
(* templates                                                               *)

\* The list literal templates_list: (name, desc)
templates_list ==
  <<[name |-> "basic", desc |-> "Basic storage contract"],
    [name |-> "oracle", desc |-> "Price oracle with AI"],
    [name |-> "insurance", desc |-> "Weather-based insurance"],
    [name |-> "defi", desc |-> "Simple DeFi lending"]>>

\* The whole command: the heading, one line per entry of templates_list, the
\* usage lines.
Templates ==
  /\ Start([cmd |-> "templates"])
  /\ stdout' =
       <<Msg("echo", "Available Templates", <<>>)>> \o
       [k \in 1..Len(templates_list) |-> Msg("echo", "template", templates_list[k])] \o
       <<Msg("echo", "Usage", <<>>),
         Msg("echo", "genlayer generate --type oracle --name MyOracle", <<>>)>>
  /\ pc' = "idle"
  /\ exit_code' = <<0>>
  /\ UNCHANGED <<fs, contracts_dir, registry, handle, origin>>
  /\ UNCHANGED <<setup_vars, contract_vars>>

-----------------------------------------------------------------------------
Next ==
  \/ \E type \in Types, name \in Names : GenerateBegin(type, name)
  \/ GenerateLookup
  \/ GenerateRender
  \/ GenerateOpen
  \/ GenerateWrite
  \/ GenerateFinish
  \/ \E contract_file \in Paths(Names) : TestBegin(contract_file)
  \/ TestRead
  \/ TestSyntax
  \/ TestChecks
  \/ Templates

Spec == Init /\ [][Next]_vars

-----------------------------------------------------------------------------
(* The renderer on drawn format strings: generate on a registry of one      *)
(* template, whose body is made of at most MaxFrags fragments (an escaped   *)
(* brace, the placeholder, a placeholder that is not supplied, an unescaped *)
(* brace, a letter) or is a body of the literal registry.                   *)

Frags == {<<"{","{">>, <<"}","}">>, <<"{","n","a","m","e","}">>, <<"{","x","}">>, <<"}">>, <<"a">>}

RECURSIVE BodiesOf(_)
BodiesOf(n) ==
  IF n = 0 THEN {<<>>}
  ELSE LET shorter == BodiesOf(n - 1)
       IN  shorter \cup {b \o f : b \in shorter, f \in Frags}

Bodies == BodiesOf(MaxFrags) \cup {templates[k].code : k \in DOMAIN templates}

\* Values of --name: an identifier, and values that hold placeholder or
\* escape syntax themselves.
Values == {<<"F","o","o">>, <<"{","n","a","m","e","}">>, <<"{","x","}">>, <<"{","{">>}

Authored(body) == [k \in {"basic"} |-> [description |-> "Drawn body", code |-> body]]

InitAuthoring == \E body \in Bodies : InitWith(Authored(body), Values)

NextAuthoring ==
  \/ \E name \in Values : GenerateBegin("basic", name)
  \/ GenerateLookup
  \/ GenerateRender
  \/ GenerateOpen
  \/ GenerateWrite
  \/ GenerateFinish

SpecAuthoring == InitAuthoring /\ [][NextAuthoring]_vars

-----------------------------------------------------------------------------
(* Properties.                                                             *)

GenerateDone == pc = "idle" /\ argv.cmd = "generate"

\* test has ended, on a file that exists
TestDone == pc = "idle" /\ argv.cmd = "test" /\ fs[argv.contract_file] # Absent

\* The result of one required-element check is in the output, passed or missing.
CheckReported(description) ==
  \/ Printed("print_success", description)
  \/ \E k \in 1..Len(stdout) :
       stdout[k].fn = "print_warning" /\ stdout[k].msg = "Missing"
       /\ stdout[k].arg = description

CheckPassed(description) == Printed("print_success", description)

AllChecksReported == \A k \in 1..Len(checks) : CheckReported(checks[k].description)

CountReported == Printed("print_info", "Public functions")

ReportedCount ==
  LET k == CHOOSE k \in 1..Len(stdout) : stdout[k].msg = "Public functions"
  IN  stdout[k].arg

SyntaxFailed == Printed("print_error", "Syntax error")

SyntaxPassed == Printed("print_success", "Syntax check passed")

\* C1: when the syntax check of test fails, the three required-element checks
\* and the count of public functions are still evaluated and reported.
C1_ChecksRunAfterSyntaxError ==
  (TestDone /\ SyntaxFailed) => (AllChecksReported /\ CountReported)

\* C2: whatever an existing contract file holds, test ends without an
\* unhandled exception, after a complete report: the syntax result, the three
\* required-element results and the count of public functions.
C2_TestAlwaysReportsFully ==
  TestDone =>
    /\ traceback = None
    /\ exit_code = <<0>>
    /\ SyntaxPassed \/ SyntaxFailed
    /\ AllChecksReported
    /\ CountReported

\* The nesting of '{' and '}' over s[lo..hi]: the sum of +1 and -1, and the
\* lowest sum of a prefix.
RECURSIVE Nesting(_, _, _)
Nesting(s, lo, hi) ==
  IF lo > hi THEN [sum |-> 0, low |-> 0]
  ELSE IF lo = hi THEN
    IF s[lo] = "{" THEN [sum |-> 1, low |-> 0]
    ELSE IF s[lo] = "}" THEN [sum |-> -1, low |-> -1]
    ELSE [sum |-> 0, low |-> 0]
  ELSE LET mid == (lo + hi) \div 2
           l == Nesting(s, lo, mid)
           r == Nesting(s, mid + 1, hi)
       IN  [sum |-> l.sum + r.sum, low |-> Min(l.low, l.sum + r.low)]

BracesBalanced(s) == LET n == Nesting(s, 1, Len(s)) IN n.sum = 0 /\ n.low = 0

\* A rendered text is acceptable: no placeholder and no doubled brace is
\* left, the braces nest, and the parser takes it.
Acceptable(text) ==
  /\ ~Contains(text, <<"{", "n", "a", "m", "e", "}">>)
  /\ ~Contains(text, <<"{", "{">>)
  /\ ~Contains(text, <<"}", "}">>)
  /\ BracesBalanced(text)
  /\ Compile(text) = {None}

AcceptableTexts == {text \in Texts : Acceptable(text)}

\* C3: the text generate renders from a registered template and a name that
\* is a legal identifier holds no placeholder and no doubled brace, its braces
\* are balanced, and it is syntactically acceptable.
C3_RenderedIsAcceptable ==
  (argv.cmd = "generate" /\ contract_code # NoText /\ IsIdentifier(argv.name))
    => contract_code \in AcceptableTexts

C3_Witness ==
  /\ pc = "gen_open" /\ argv.type = "insurance" /\ argv.name = <<"T", "_", "1">>
  /\ contract_code \in AcceptableTexts

\* C4: test on a file generate rendered from a registered template and a
\* legal identifier reports the syntax check and the three required elements
\* as passed; for the basic template and the name Foo it counts 2 public
\* functions.
C4_RenderedPassesTest ==
  (TestDone /\ origin[argv.contract_file] # None
     /\ IsIdentifier(argv.contract_file.stem))
    => /\ traceback = None
       /\ SyntaxPassed
       /\ \A k \in 1..Len(checks) : CheckPassed(checks[k].description)
       /\ CountReported
       /\ (origin[argv.contract_file] = "basic"
             /\ argv.contract_file.stem = <<"F", "o", "o">>) => ReportedCount = 2

C4_Witness ==
  /\ TestDone
  /\ origin[argv.contract_file] = "basic"
  /\ argv.contract_file.stem = <<"F", "o", "o">>
  /\ SyntaxPassed
  /\ CountReported
  /\ ReportedCount = 2

\* The unknown key and the valid keys are in the output.
UnknownTypeReported ==
  /\ \E k \in 1..Len(stdout) :
       stdout[k].fn = "print_error" /\ stdout[k].msg = "Unknown template type"
       /\ stdout[k].arg = argv.type
  /\ \E k \in 1..Len(stdout) :
       stdout[k].fn = "print_info" /\ stdout[k].msg = "Available types"
       /\ stdout[k].arg = TemplateKeys

\* C5: generate with a type that is no key of the registry reports the key
\* and all the valid keys, and creates, truncates or modifies no file.
C5_UnknownTypeWritesNothing ==
  (argv.cmd = "generate" /\ argv.type \notin DOMAIN registry)
    => /\ fs = fs0
       /\ handle = "closed"
       /\ contract_code = NoText
       /\ GenerateDone => UnknownTypeReported

C5_Witness ==
  /\ GenerateDone
  /\ argv.type = "bogus"
  /\ UnknownTypeReported
  /\ fs = fs0

\* C6: generate exits with status 0 when the key is registered and the file
\* is written, and with a non-zero status when the key is unknown.
C6_ExitCodeTellsUnknownKey ==
  GenerateDone =>
    /\ (argv.type \in DOMAIN registry /\ Printed("print_success", "Generated"))
         => exit_code = <<0>>
    /\ (argv.type \notin DOMAIN registry) => exit_code # <<0>>

\* The text generate has rendered is in contract_code.
RenderDone == argv.cmd = "generate" /\ contract_code # NoText

\* The format string of the running generate.
Body == registry[argv.type].code

\* The number of elements of s that are c.
Occurs(s, c) == Cardinality({k \in 1..Len(s) : s[k] = c})

\* Per drawn body: its doubled braces, counted as str.count counts them, and
\* its rendering with a one-element mark as the value (computed once).
Doubled ==
  [b \in Bodies |-> [open |-> Count(b, <<"{", "{">>), close |-> Count(b, <<"}", "}">>)]]

Marked == [b \in Bodies |-> Format(b, <<"MARK">>)]

\* C7: every doubled brace of a template body is one literal brace of the
\* output and starts or ends no placeholder; only {name} is substituted.  In
\* numbers: with d1 doubled '{', d2 doubled '}' and f remaining '{' (the
\* fields), the output has d1 '{' and d2 '}' beside those of the f copies of
\* the value, and its length is that of the body with each doubled brace
\* counted once and each field replaced by the value.
C7_DoubledBraceIsOneLiteral ==
  RenderDone =>
    LET d1 == Doubled[Body].open
        d2 == Doubled[Body].close
        f  == Occurs(Body, "{") - 2 * d1
    IN  /\ Occurs(contract_code, "{") = d1 + f * Occurs(argv.name, "{")
        /\ Occurs(contract_code, "}") = d2 + f * Occurs(argv.name, "}")
        /\ Occurs(Body, "}") = 2 * d2 + f
        /\ Len(contract_code) =
             Len(Body) - d1 - d2 - f * (Len(FieldName) + 2) + f * Len(argv.name)

C7_Witness ==
  /\ RenderDone
  /\ Body = <<"{", "{", "{", "n", "a", "m", "e", "}", "}", "}">>
  /\ argv.name = <<"F", "o", "o">>
  /\ contract_code = <<"{", "F", "o", "o", "}">>

\* C8: the file generate has written holds the rendering of its type and
\* name and nothing else, whatever was at the path before; so generate run
\* again with the same type and name, on the file the earlier run wrote,
\* leaves at the same path the text the earlier run left.
C8_GenerateIsIdempotent ==
  pc = "gen_finish" =>
    /\ fs[filepath] = Render(registry, argv.type, argv.name).text
    /\ \A p \in DOMAIN fs : p # filepath => fs[p] = fs0[p]
    /\ (origin[filepath] = argv.type /\ fs0[filepath] # Absent)
         => fs[filepath] = fs0[filepath]

C8_Witness ==
  /\ pc = "gen_finish"
  /\ origin[filepath] = argv.type
  /\ fs0[filepath] # Absent
  /\ fs[filepath] = fs0[filepath]
  /\ fs[filepath] = contract_code

\* s[lo..hi] with every element mark replaced by the text v
RECURSIVE Expand(_, _, _, _, _)
Expand(s, lo, hi, mark, v) ==
  IF lo > hi THEN <<>>
  ELSE IF lo = hi THEN (IF s[lo] = mark THEN v ELSE <<s[lo]>>)
  ELSE LET mid == (lo + hi) \div 2
       IN  Expand(s, lo, mid, mark, v) \o Expand(s, mid + 1, hi, mark, v)

\* The render step of the running generate is over.
RenderTried == argv.cmd = "generate" /\ (contract_code # NoText \/ traceback # None)

\* C9: the value is copied into the output as it is and is not scanned: the
\* rendering with a value is the rendering with a one-element mark in which
\* the value stands for every mark, and it fails exactly when the rendering
\* with the mark fails.
C9_ValueIsCopiedVerbatim ==
  RenderTried =>
    LET m == Marked[Body]
    IN  IF m.exc = None
          THEN contract_code = Expand(m.text, 1, Len(m.text), "MARK", argv.name)
          ELSE traceback = m.exc /\ contract_code = NoText

C9_Witness ==
  /\ RenderDone
  /\ Body = <<"a", "{", "n", "a", "m", "e", "}", "{", "n", "a", "m", "e", "}">>
  /\ argv.name = <<"{", "{">>
  /\ contract_code = <<"a", "{", "{", "{", "{">>

\* C10: a failed substitution leaves every file as it was, and the target is
\* open for writing only once the complete rendered text exists.
C10_RenderIsAllOrNothing ==
  argv.cmd = "generate" =>
    /\ handle = "open" =>
         Format(Body, argv.name) = [exc |-> None, text |-> contract_code]
    /\ contract_code = NoText => (fs = fs0 /\ handle = "closed")
    /\ traceback # None =>
         /\ contract_code = NoText
         /\ ~Printed("print_success", "Generated")
         /\ exit_code = <<1>>

C10_Witness ==
  /\ GenerateDone
  /\ traceback = "KeyError"
  /\ fs = fs0
  /\ contract_code = NoText

\* test on a file that is read and compiled (no undecodable byte, no null
\* byte) exits with status 0, whatever the checks report.
TestExitsZeroWhenRead ==
  (TestDone /\ \A k \in 1..Len(fs[argv.contract_file]) :
                 fs[argv.contract_file][k] \notin {NUL, BAD})
    => exit_code = <<0>>

\* C11: test on an existing contract file exits with status 0, whatever the
\* syntax check, the required-element checks and the count of public
\* functions give.
C11_TestAlwaysExitsZero == TestDone => exit_code = <<0>>

TemplatesDone == pc = "idle" /\ argv.cmd = "templates"

\* The lines of the listing, in the order printed.
Listed == SelectSeq(stdout, LAMBDA line : line.msg = "template")

\* The registry's listing: (key, description) in the order of registration.
RegistryListing ==
  [k \in 1..Len(Keys(registry)) |->
     [name |-> Keys(registry)[k], desc |-> registry[Keys(registry)[k]].description]]

\* The keys listed are the keys generate accepts, in the order of registration.
ListedKeysAreRegistryKeys ==
  TemplatesDone =>
    [k \in 1..Len(Listed) |-> Listed[k].arg.name] = Keys(registry)

\* C12: the listing the templates command prints is the registry's: the keys
\* generate accepts, in the order of registration, each with the description
\* the registry holds for it.
C12_ListingIsRegistry ==
  TemplatesDone => [k \in 1..Len(Listed) |-> Listed[k].arg] = RegistryListing

-----------------------------------------------------------------------------
(* init <project_name> --template <template>                               *)
(*                                                                         *)
(* A path under the working directory is the sequence of its components:   *)
(* the project name (a text) first, then names inside the project.  A      *)
(* directory holds Dir, a file its text.                                   *)

\* The character '`', written as an element of its own.
BACKTICK == "BACKTICK"

\* json.dump(config, f, indent=2), src/genlayer_devkit.py lines 91-105, 104-105:
\* the text before project_name, between it and template, and after template
config_head ==
     <<"{","\n">>
  \o <<" "," ","\"","p","r","o","j","e","c","t","_","n","a","m","e","\"",":"," ">>

config_middle ==
     <<",","\n">>
  \o <<" "," ","\"","t","e","m","p","l","a","t","e","\"",":"," ">>

config_tail ==
     <<",","\n">>
  \o <<" "," ","\"","g","e","n","l","a","y","e","r","_","v","e","r","s","i","o","n","\"",":"," ","\"","1",".","0","\"",",","\n">>
  \o <<" "," ","\"","n","e","t","w","o","r","k","s","\"",":"," ","{","\n">>
  \o <<" "," "," "," ","\"","t","e","s","t","n","e","t","\"",":"," ","{","\n">>
  \o <<" "," "," "," "," "," ","\"","r","p","c","_","u","r","l","\"",":"," ","\"","h","t","t","p","s",":","/","/","r","p","c",".","t","e","s","t","n","e","t",".","g","e","n","l","a","y","e","r",".","c","o","m","\"",",","\n">>
  \o <<" "," "," "," "," "," ","\"","n","e","t","w","o","r","k","_","i","d","\"",":"," ","\"","t","e","s","t","n","e","t","\"","\n">>
  \o <<" "," "," "," ","}",",","\n">>
  \o <<" "," "," "," ","\"","m","a","i","n","n","e","t","\"",":"," ","{","\n">>
  \o <<" "," "," "," "," "," ","\"","r","p","c","_","u","r","l","\"",":"," ","\"","h","t","t","p","s",":","/","/","r","p","c",".","m","a","i","n","n","e","t",".","g","e","n","l","a","y","e","r",".","c","o","m","\"",",","\n">>
  \o <<" "," "," "," "," "," ","\"","n","e","t","w","o","r","k","_","i","d","\"",":"," ","\"","m","a","i","n","n","e","t","\"","\n">>
  \o <<" "," "," "," ","}","\n">>
  \o <<" "," ","}","\n">>
  \o <<"}">>

\* readme_content, src/genlayer_devkit.py lines 112-140: the text before and after
\* project_name
readme_head ==
     <<"#"," ">>

readme_tail ==
     <<"\n">>
  \o <<"\n">>
  \o <<"G","e","n","L","a","y","e","r"," ","s","m","a","r","t"," ","c","o","n","t","r","a","c","t"," ","p","r","o","j","e","c","t",".","\n">>
  \o <<"\n">>
  \o <<"#","#"," ","S","e","t","u","p","\n">>
  \o <<"\n">>
  \o <<BACKTICK,BACKTICK,BACKTICK,"b","a","s","h","\n">>
  \o <<"#"," ","I","n","s","t","a","l","l"," ","d","e","p","e","n","d","e","n","c","i","e","s","\n">>
  \o <<"p","i","p"," ","i","n","s","t","a","l","l"," ","-","r"," ","r","e","q","u","i","r","e","m","e","n","t","s",".","t","x","t","\n">>
  \o <<"\n">>
  \o <<"#"," ","T","e","s","t"," ","c","o","n","t","r","a","c","t","s","\n">>
  \o <<"g","e","n","l","a","y","e","r"," ","t","e","s","t"," ","c","o","n","t","r","a","c","t","s","/","M","y","C","o","n","t","r","a","c","t",".","p","y","\n">>
  \o <<"\n">>
  \o <<"#"," ","D","e","p","l","o","y","\n">>
  \o <<"g","e","n","l","a","y","e","r"," ","d","e","p","l","o","y"," ","c","o","n","t","r","a","c","t","s","/","M","y","C","o","n","t","r","a","c","t",".","p","y"," ","-","-","n","e","t","w","o","r","k"," ","t","e","s","t","n","e","t","\n">>
  \o <<BACKTICK,BACKTICK,BACKTICK,"\n">>
  \o <<"\n">>
  \o <<"#","#"," ","P","r","o","j","e","c","t"," ","S","t","r","u","c","t","u","r","e","\n">>
  \o <<"\n">>
  \o <<"-"," ",BACKTICK,"c","o","n","t","r","a","c","t","s","/",BACKTICK," ","-"," ","S","m","a","r","t"," ","c","o","n","t","r","a","c","t","s","\n">>
  \o <<"-"," ",BACKTICK,"t","e","s","t","s","/",BACKTICK," ","-"," ","C","o","n","t","r","a","c","t"," ","t","e","s","t","s","\n">>
  \o <<"-"," ",BACKTICK,"s","c","r","i","p","t","s","/",BACKTICK," ","-"," ","D","e","p","l","o","y","m","e","n","t"," ","s","c","r","i","p","t","s","\n">>
  \o <<"-"," ",BACKTICK,"d","o","c","s","/",BACKTICK," ","-"," ","D","o","c","u","m","e","n","t","a","t","i","o","n","\n">>
  \o <<"\n">>
  \o <<"#","#"," ","R","e","s","o","u","r","c","e","s","\n">>
  \o <<"\n">>
  \o <<"-"," ","[","G","e","n","L","a","y","e","r"," ","D","o","c","s","]","(","h","t","t","p","s",":","/","/","d","o","c","s",".","g","e","n","l","a","y","e","r",".","c","o","m",")","\n">>
  \o <<"-"," ","[","D","e","v","K","i","t"," ","G","u","i","d","e","]","(","h","t","t","p","s",":","/","/","g","i","t","h","u","b",".","c","o","m","/","l","i","f","e","o","f","a","g","c","t","/","g","e","n","l","a","y","e","r","-","d","e","v","k","i","t",")","\n">>

\* requirements, src/genlayer_devkit.py lines 147-150
requirements ==
     <<"g","e","n","l","a","y","e","r","-","s","d","k",">","=","0",".","1",".","0","\n">>
  \o <<"c","l","i","c","k",">","=","8",".","0",".","0","\n">>
  \o <<"p","y","t","e","s","t",">","=","7",".","0",".","0","\n">>

\* gitignore, src/genlayer_devkit.py lines 157-163
gitignore ==
     <<"_","_","p","y","c","a","c","h","e","_","_","/","\n">>
  \o <<"*",".","p","y","c","\n">>
  \o <<".","p","y","t","e","s","t","_","c","a","c","h","e","/","\n">>
  \o <<".","e","n","v","\n">>
  \o <<"v","e","n","v","/","\n">>
  \o <<"*",".","l","o","g","\n">>

\* contract_content, src/genlayer_devkit.py lines 171-186
contract_content_basic ==
     <<"#"," ","{","{"," ","\"","D","e","p","e","n","d","s","\"",":"," ","\"","p","y","-","g","e","n","l","a","y","e","r",":","t","e","s","t","\""," ","}","}","\n">>
  \o <<"f","r","o","m"," ","g","e","n","l","a","y","e","r"," ","i","m","p","o","r","t"," ","*","\n">>
  \o <<"\n">>
  \o <<"c","l","a","s","s"," ","M","y","C","o","n","t","r","a","c","t","(","g","l",".","C","o","n","t","r","a","c","t",")",":","\n">>
  \o <<" "," "," "," ","d","e","f"," ","_","_","i","n","i","t","_","_","(","s","e","l","f",")",":","\n">>
  \o <<" "," "," "," "," "," "," "," ","s","e","l","f",".","v","a","l","u","e"," ","="," ","0","\n">>
  \o <<" "," "," "," ","\n">>
  \o <<" "," "," "," ","@","g","l",".","p","u","b","l","i","c",".","w","r","i","t","e","\n">>
  \o <<" "," "," "," ","d","e","f"," ","s","e","t","_","v","a","l","u","e","(","s","e","l","f",","," ","n","e","w","_","v","a","l","u","e",":"," ","i","n","t",")",":","\n">>
  \o <<" "," "," "," "," "," "," "," ","s","e","l","f",".","v","a","l","u","e"," ","="," ","n","e","w","_","v","a","l","u","e","\n">>
  \o <<" "," "," "," "," "," "," "," ","r","e","t","u","r","n"," ","f","\"","V","a","l","u","e"," ","s","e","t"," ","t","o"," ","{","n","e","w","_","v","a","l","u","e","}","\"","\n">>
  \o <<" "," "," "," ","\n">>
  \o <<" "," "," "," ","@","g","l",".","p","u","b","l","i","c",".","v","i","e","w","\n">>
  \o <<" "," "," "," ","d","e","f"," ","g","e","t","_","v","a","l","u","e","(","s","e","l","f",")"," ","-",">"," ","i","n","t",":","\n">>
  \o <<" "," "," "," "," "," "," "," ","r","e","t","u","r","n"," ","s","e","l","f",".","v","a","l","u","e","\n">>

\* contract_content, src/genlayer_devkit.py lines 188-205
contract_content_oracle ==
     <<"#"," ","{","{"," ","\"","D","e","p","e","n","d","s","\"",":"," ","\"","p","y","-","g","e","n","l","a","y","e","r",":","t","e","s","t","\""," ","}","}","\n">>
  \o <<"f","r","o","m"," ","g","e","n","l","a","y","e","r"," ","i","m","p","o","r","t"," ","*","\n">>
  \o <<"\n">>
  \o <<"c","l","a","s","s"," ","P","r","i","c","e","O","r","a","c","l","e","(","g","l",".","C","o","n","t","r","a","c","t",")",":","\n">>
  \o <<" "," "," "," ","d","e","f"," ","_","_","i","n","i","t","_","_","(","s","e","l","f",")",":","\n">>
  \o <<" "," "," "," "," "," "," "," ","s","e","l","f",".","p","r","i","c","e","s"," ","="," ","{","}","\n">>
  \o <<" "," "," "," ","\n">>
  \o <<" "," "," "," ","@","g","l",".","p","u","b","l","i","c",".","w","r","i","t","e","\n">>
  \o <<" "," "," "," ","d","e","f"," ","u","p","d","a","t","e","_","p","r","i","c","e","(","s","e","l","f",","," ","t","o","k","e","n",":"," ","s","t","r",")"," ","-",">"," ","i","n","t",":","\n">>
  \o <<" "," "," "," "," "," "," "," ","#"," ","I","n"," ","p","r","o","d","u","c","t","i","o","n",","," ","f","e","t","c","h"," ","r","e","a","l"," ","p","r","i","c","e"," ","v","i","a"," ","A","I","\n">>
  \o <<" "," "," "," "," "," "," "," ","#"," ","F","o","r"," ","n","o","w",","," ","d","e","m","o"," ","i","m","p","l","e","m","e","n","t","a","t","i","o","n","\n">>
  \o <<" "," "," "," "," "," "," "," ","s","e","l","f",".","p","r","i","c","e","s","[","t","o","k","e","n","]"," ","="," ","4","5","0","0","0","\n">>
  \o <<" "," "," "," "," "," "," "," ","r","e","t","u","r","n"," ","s","e","l","f",".","p","r","i","c","e","s","[","t","o","k","e","n","]","\n">>
  \o <<" "," "," "," ","\n">>
  \o <<" "," "," "," ","@","g","l",".","p","u","b","l","i","c",".","v","i","e","w","\n">>
  \o <<" "," "," "," ","d","e","f"," ","g","e","t","_","p","r","i","c","e","(","s","e","l","f",","," ","t","o","k","e","n",":"," ","s","t","r",")"," ","-",">"," ","i","n","t",":","\n">>
  \o <<" "," "," "," "," "," "," "," ","r","e","t","u","r","n"," ","s","e","l","f",".","p","r","i","c","e","s",".","g","e","t","(","t","o","k","e","n",","," ","0",")","\n">>

\* contract_content, src/genlayer_devkit.py lines 207-213
contract_content_else ==
     <<"#"," ","{","{"," ","\"","D","e","p","e","n","d","s","\"",":"," ","\"","p","y","-","g","e","n","l","a","y","e","r",":","t","e","s","t","\""," ","}","}","\n">>
  \o <<"f","r","o","m"," ","g","e","n","l","a","y","e","r"," ","i","m","p","o","r","t"," ","*","\n">>
  \o <<"\n">>
  \o <<"c","l","a","s","s"," ","M","y","C","o","n","t","r","a","c","t","(","g","l",".","C","o","n","t","r","a","c","t",")",":","\n">>
  \o <<" "," "," "," ","d","e","f"," ","_","_","i","n","i","t","_","_","(","s","e","l","f",")",":","\n">>
  \o <<" "," "," "," "," "," "," "," ","p","a","s","s","\n">>

Dir == <<"Dir">>

\* Values of project_name: a free name, a directory that exists, a file that
\* exists, and a name under a directory that does not exist.
ProjectNames ==
  {<<"p","r","o","j">>, <<"t","a","k","e","n">>, <<"n","o","t","e","s">>, <<"a","/","b">>}

\* Values of --template: the keys the help text names, a key of generate's
\* registry it does not name, and a key that is registered nowhere.
ProjectTemplates == {"basic", "oracle", "defi", "insurance", "bogus"}

\* A template key as text.
Spelled ==
  [basic |-> <<"b","a","s","i","c">>, oracle |-> <<"o","r","a","c","l","e">>,
   defi |-> <<"d","e","f","i">>,
   insurance |-> <<"i","n","s","u","r","a","n","c","e">>,
   bogus |-> <<"b","o","g","u","s">>]

\* dirs = ['contracts', 'tests', 'scripts', 'docs']
dirs == <<"contracts", "tests", "scripts", "docs">>

ProjectFiles == {"genlayer.json", "README.md", "requirements.txt", ".gitignore"}

ContractPath(project_name) == <<project_name, "contracts", "MyContract.py">>

ProjectPaths ==
  {<<<<"a">>>>} \cup
  UNION {{<<n>>, ContractPath(n)} \cup {<<n, dirs[k]>> : k \in 1..Len(dirs)}
           \cup {<<n, f>> : f \in ProjectFiles} : n \in ProjectNames}

\* Before any command: taken/ exists and holds a README.md, notes is a file.
InitProjectFs ==
  [p \in ProjectPaths |->
     IF p = <<<<"t","a","k","e","n">>>> THEN Dir
     ELSE IF p = <<<<"t","a","k","e","n">>, "README.md">> THEN <<"m","i","n","e","\n">>
     ELSE IF p = <<<<"n","o","t","e","s">>>> THEN <<"t","o","d","o","\n">>
     ELSE Absent]

\* The last position of c in s, 0 if there is none.
LastIndex(s, c) ==
  IF \E k \in 1..Len(s) : s[k] = c
    THEN CHOOSE k \in 1..Len(s) : s[k] = c /\ \A j \in (k + 1)..Len(s) : s[j] # c
    ELSE 0

\* Whether the directory a path lies in exists.  The working directory does.
ParentIsDir(files, path) ==
  IF Len(path) > 1 THEN files[SubSeq(path, 1, Len(path) - 1)] = Dir
  ELSE LET k == LastIndex(path[1], "/")
       IN  k = 0 \/ files[<<SubSeq(path[1], 1, k - 1)>>] = Dir

\* Path.mkdir()
Mkdir(files, path) ==
  IF files[path] # Absent THEN [exc |-> "FileExistsError", files |-> files]
  ELSE IF ~ParentIsDir(files, path) THEN [exc |-> "FileNotFoundError", files |-> files]
  ELSE [exc |-> None, files |-> [files EXCEPT ![path] = Dir]]

\* with open(path, 'w') as f: f.write(text)
WriteFile(files, path, text) ==
  LET opened == OpenW(files, path)
  IN  [opened EXCEPT ![path] = opened[path] \o text]

\* json.dumps of a str: quoted, with '"' and '\' escaped.
RECURSIVE JsonEscape(_)
JsonEscape(s) ==
  IF s = <<>> THEN <<>>
  ELSE (IF Head(s) \in {"\"", "\\"} THEN <<"\\", Head(s)>> ELSE <<Head(s)>>)
         \o JsonEscape(Tail(s))

JsonString(s) == <<"\"">> \o JsonEscape(s) \o <<"\"">>

\* A process before it starts, with the registry `reg` and the files `files`.
ProcessInit(reg, files) ==
  /\ registry = reg
  /\ contracts_dir = FALSE
  /\ fs = files
  /\ fs0 = files
  /\ pc = "idle"
  /\ argv = NoCommand
  /\ contract_code = NoText
  /\ filepath = NoPath
  /\ handle = "closed"
  /\ stdout = <<>>
  /\ exit_code = <<>>
  /\ traceback = None
  /\ origin = EmptyDict
  /\ runs = 0

InitProject == SetupIdle /\ ContractsInit /\ ProcessInit(templates, InitProjectFs)

\* if project_path.exists(): print_error(...); return
InitBegin_NoExistsCheck(project_name, template) ==
  /\ Start([cmd |-> "init", project_name |-> project_name, template |-> template])
  /\ stdout' = <<Msg("echo", "GenLayer DevKit", <<>>),
                 Msg("echo", "Creating new project", project_name)>>
  /\ pc' = "init_mkdir"
  /\ exit_code' = <<>>
  /\ UNCHANGED <<fs, contracts_dir, registry, handle, origin>>
  /\ UNCHANGED <<setup_vars, contract_vars>>

InitBegin(project_name, template) ==
  /\ Start([cmd |-> "init", project_name |-> project_name, template |-> template])
  /\ IF fs[<<project_name>>] # Absent
       THEN /\ stdout' = <<Msg("echo", "GenLayer DevKit", <<>>),
                           Msg("echo", "Creating new project", project_name),
                           Msg("print_error", "Directory already exists", project_name)>>
            /\ pc' = "idle"
            /\ exit_code' = <<0>>
       ELSE /\ stdout' = <<Msg("echo", "GenLayer DevKit", <<>>),
                           Msg("echo", "Creating new project", project_name)>>
            /\ pc' = "init_mkdir"
            /\ exit_code' = <<>>
  /\ UNCHANGED <<fs, contracts_dir, registry, handle, origin>>
  /\ UNCHANGED <<setup_vars, contract_vars>>

\* project_path.mkdir()
InitMkdir ==
  /\ pc = "init_mkdir"
  /\ LET r == Mkdir(fs, <<argv.project_name>>)
     IN  IF r.exc = None
           THEN /\ fs' = r.files
                /\ pc' = "init_dirs"
                /\ UNCHANGED <<exit_code, traceback>>
           ELSE /\ Raise(r.exc)
                /\ UNCHANGED fs
  /\ UNCHANGED <<contracts_dir, registry, argv, contract_code, filepath, handle,
                 stdout, fs0, origin, runs>>
  /\ UNCHANGED <<setup_vars, contract_vars>>

\* The directories of dirs[k..] made in files, in order.
RECURSIVE MkdirAll(_, _, _)
MkdirAll(files, project_name, k) ==
  IF k > Len(dirs) THEN files
  ELSE MkdirAll(Mkdir(files, <<project_name, dirs[k]>>).files, project_name, k + 1)

\* for dir_name in dirs: (project_path / dir_name).mkdir(); print_success(...)
InitDirs ==
  /\ pc = "init_dirs"
  /\ fs' = MkdirAll(fs, argv.project_name, 1)
  /\ stdout' = stdout \o [k \in 1..Len(dirs) |-> Msg("print_success", "Created", dirs[k])]
  /\ pc' = "init_config"
  /\ UNCHANGED <<contracts_dir, registry, argv, contract_code, filepath, handle,
                 exit_code, traceback, fs0, origin, runs>>
  /\ UNCHANGED <<setup_vars, contract_vars>>

\* json.dump(config, f, indent=2) into genlayer.json
InitConfig ==
  /\ pc = "init_config"
  /\ fs' = WriteFile(fs, <<argv.project_name, "genlayer.json">>,
                     config_head \o JsonString(argv.project_name) \o config_middle
                       \o JsonString(Spelled[argv.template]) \o config_tail)
  /\ stdout' = Append(stdout, Msg("print_success", "Created", "genlayer.json"))
  /\ pc' = "init_readme"
  /\ UNCHANGED <<contracts_dir, registry, argv, contract_code, filepath, handle,
                 exit_code, traceback, fs0, origin, runs>>
  /\ UNCHANGED <<setup_vars, contract_vars>>

\* README.md, requirements.txt and .gitignore, in this order
InitTexts ==
  /\ pc = "init_readme"
  /\ fs' = WriteFile(
             WriteFile(
               WriteFile(fs, <<argv.project_name, "README.md">>,
                         readme_head \o argv.project_name \o readme_tail),
               <<argv.project_name, "requirements.txt">>, requirements),
             <<argv.project_name, ".gitignore">>, gitignore)
  /\ stdout' = stdout \o
       <<Msg("print_success", "Created", "README.md"),
         Msg("print_success", "Created", "requirements.txt"),
         Msg("print_success", "Created", ".gitignore")>>
  /\ pc' = "init_choose"
  /\ UNCHANGED <<contracts_dir, registry, argv, contract_code, filepath, handle,
                 exit_code, traceback, fs0, origin, runs>>
  /\ UNCHANGED <<setup_vars, contract_vars>>

\* if template == 'basic': ... elif template == 'oracle': ... else: ...
InitChoose ==
  /\ pc = "init_choose"
  /\ contract_code' =
       IF argv.template = "basic" THEN contract_content_basic
       ELSE IF argv.template = "oracle" THEN contract_content_oracle
       ELSE contract_content_else
  /\ pc' = "init_contract"
  /\ UNCHANGED <<fs, contracts_dir, registry, argv, filepath, handle, stdout,
                 exit_code, traceback, fs0, origin, runs>>
  /\ UNCHANGED <<setup_vars, contract_vars>>

\* with open(project_path / 'contracts' / 'MyContract.py', 'w') as f:
\*     f.write(contract_content)
InitContract ==
  /\ pc = "init_contract"
  /\ fs' = WriteFile(fs, ContractPath(argv.project_name), contract_code)
  /\ stdout' = stdout \o
       <<Msg("print_success", "Created", "contracts/MyContract.py"),
         Msg("echo", "Project created successfully!", <<>>),
         Msg("echo", "Next steps", <<>>),
         Msg("echo", "cd", argv.project_name),
         Msg("echo", "genlayer generate --help", <<>>),
         Msg("echo", "genlayer test contracts/MyContract.py", <<>>)>>
  /\ Return
  /\ UNCHANGED <<contracts_dir, registry, argv, contract_code, filepath, handle,
                 fs0, origin, runs>>
  /\ UNCHANGED <<setup_vars, contract_vars>>

NextProject ==
  \/ \E project_name \in ProjectNames, template \in ProjectTemplates :
       InitBegin(project_name, template)
  \/ InitMkdir
  \/ InitDirs
  \/ InitConfig
  \/ InitTexts
  \/ InitChoose
  \/ InitContract

SpecProject == InitProject /\ [][NextProject]_vars

-----------------------------------------------------------------------------
(* Properties of init.                                                     *)

InitDone == pc = "idle" /\ argv.cmd = "init"

\* init has written the contract file of the project.
ContractWritten == InitDone /\ Printed("print_success", "Created") /\
  \E k \in 1..Len(stdout) : stdout[k].arg = "contracts/MyContract.py"

\* The name of the class of the contract init writes for a registered key.
MyContract == <<"M","y","C","o","n","t","r","a","c","t">>

\* C13: the contract file init writes for a registered template is the
\* renderer's output for that template, as generate produces it: placeholder
\* substituted, every doubled brace of the body written as a single brace.
C13_InitWritesRenderedTemplate ==
  (ContractWritten /\ argv.template \in DOMAIN registry) =>
    LET file == fs[ContractPath(argv.project_name)]
    IN  /\ ~Contains(file, <<"{", "{">>)
        /\ ~Contains(file, <<"}", "}">>)
        /\ \E name \in {MyContract, argv.project_name} :
             file = Format(registry[argv.template].code, name).text

\* An unknown template is signalled, with the valid keys.
UnknownTemplateReported ==
  \E k \in 1..Len(stdout) :
    stdout[k].fn = "print_error" /\ stdout[k].msg = "Unknown template type"

\* C14: init with a --template that is no registered key signals the
\* unknown template, presents the valid keys, and creates no project with a
\* default contract.
C14_InitRejectsUnknownTemplate ==
  (argv.cmd = "init" /\ argv.template \notin DOMAIN registry
     /\ fs0[<<argv.project_name>>] = Absent) =>
    /\ fs[ContractPath(argv.project_name)] = Absent
    /\ InitDone /\ traceback = None => UnknownTemplateReported

\* Everything that exists lies in a directory that exists.
TreeIsRooted ==
  \A p \in DOMAIN fs : (fs[p] # Absent /\ Len(p) > 1) => fs[<<p[1]>>] = Dir

\* C15: when the path project_name exists, init reports the error and leaves
\* every path as it was; in every other run the project directory exists
\* before anything inside it does.
C15_InitOnExistingPath ==
  /\ (argv.cmd = "init" /\ fs0[<<argv.project_name>>] # Absent) =>
       /\ fs = fs0
       /\ InitDone => /\ Printed("print_error", "Directory already exists")
                      /\ ~Printed("print_success", "Created")
  /\ TreeIsRooted
  /\ (argv.cmd = "init" /\ pc \notin {"idle", "init_mkdir"}) =>
       fs[<<argv.project_name>>] = Dir

\* init on the project an earlier init created: nothing is rewritten.
C15_Witness ==
  /\ InitDone
  /\ argv.project_name = <<"p","r","o","j">>
  /\ fs0[<<argv.project_name>>] = Dir
  /\ fs0[ContractPath(argv.project_name)] = contract_content_oracle
  /\ fs = fs0
  /\ Printed("print_error", "Directory already exists")

-----------------------------------------------------------------------------
(* setup_devkit.py                                                         *)
(*                                                                         *)
(* What the five step functions do depends on the machine only; env holds  *)
(* what they find there.                                                   *)

Envs ==
  [python_ok : BOOLEAN,        \* sys.version_info >= (3, 7)
   pip : {"ok", "retry_ok", "fail"},
                               \* pip install: succeeds; fails with
                               \* --break-system-packages and succeeds without;
                               \* fails twice
   devkit_exists : BOOLEAN,    \* os.path.exists("genlayer_devkit.py")
   system : {"Windows", "Linux", "Darwin"},   \* platform.system()
   chmod_ok : BOOLEAN,         \* os.chmod succeeds
   shell : {"bash", "zsh", "other"},          \* which name $SHELL holds
   version : {"zero", "nonzero", "error"}]    \* genlayer_devkit.py --version:
                               \* its return code, or subprocess.run raises

\* The steps of main: (step_name, step_func)
steps ==
  <<"Checking Python", "Installing dependencies", "Making executable",
    "Creating alias", "Testing installation">>

\* What a step function does: it returns ok, or exc leaves it; out is what it
\* has printed.
Returns(ok, out) == [exc |-> None, ok |-> ok, out |-> out]

Raises(exc, out) == [exc |-> exc, ok |-> FALSE, out |-> out]

check_python(e) ==
  IF ~e.python_ok
    THEN Returns(FALSE, <<"Checking Python version...",
                          "Python 3.7 or higher required!", "Current version">>)
    ELSE Returns(TRUE, <<"Checking Python version...", "Python detected">>)

\* check_call of sys.executable, the interpreter that runs the script: a
\* failed pip is a CalledProcessError, caught around the first call; a bare
\* except is around the second.
install_dependencies(e) ==
  IF e.pip \in {"ok", "retry_ok"}
    THEN Returns(TRUE, <<"Installing dependencies...",
                         "Dependencies installed successfully">>)
  ELSE Returns(FALSE, <<"Installing dependencies...",
                        "Failed to install dependencies",
                        "Try manually: pip install click colorama">>)

make_executable(e) ==
  IF ~e.devkit_exists
    THEN Returns(FALSE, <<"Setting up executable...", "genlayer_devkit.py not found!">>)
  ELSE IF e.system = "Windows" THEN Returns(TRUE, <<"Setting up executable...">>)
  ELSE IF e.chmod_ok
    THEN Returns(TRUE, <<"Setting up executable...",
                         "genlayer_devkit.py is now executable">>)
  ELSE Returns(TRUE, <<"Setting up executable...", "Could not make executable">>)

\* os.path.abspath("genlayer_devkit.py")
devkit_path == <<"C",":","\\","g","e","n","l","a","y","e","r","_","d","e","v","k","i","t",".","p","y">>

\* The format string of the Windows branch, src/setup_devkit.py lines 93-102
windows_alias ==
     <<"\n">>
  \o <<" "," ","W","i","n","d","o","w","s"," ","P","o","w","e","r","S","h","e","l","l"," ","a","l","i","a","s",":","\n">>
  \o <<" "," ","\n">>
  \o <<" "," ","A","d","d"," ","t","h","i","s"," ","t","o"," ","y","o","u","r"," ","P","o","w","e","r","S","h","e","l","l"," ","p","r","o","f","i","l","e",":","\n">>
  \o <<" "," ","\n">>
  \o <<" "," ","f","u","n","c","t","i","o","n"," ","g","e","n","l","a","y","e","r"," ","{"," ","p","y","t","h","o","n"," ","\"","{","}","\""," ","$","a","r","g","s"," ","}","\n">>
  \o <<" "," ","\n">>
  \o <<" "," ","O","r"," ","r","u","n"," ","d","i","r","e","c","t","l","y",":","\n">>
  \o <<" "," ","p","y","t","h","o","n"," ","g","e","n","l","a","y","e","r","_","d","e","v","k","i","t",".","p","y"," ","<","c","o","m","m","a","n","d",">","\n">>
  \o <<" "," "," "," "," "," "," "," ">>

\* On Windows the text is windows_alias.format(devkit_path): the scan of the
\* format string ends in the field that starts at the first '{', before any
\* argument is looked up.
create_alias(e) ==
  IF e.system = "Windows"
    THEN LET r == Format(windows_alias, devkit_path)
         IN  IF r.exc # None THEN Raises(r.exc, <<"Setting up alias...">>)
             ELSE Returns(TRUE, <<"Setting up alias...", r.text>>)
  ELSE IF e.shell \in {"bash", "zsh"}
    THEN Returns(TRUE, <<"Setting up alias...", "Add this to your rc file">>)
  ELSE Returns(TRUE, <<"Setting up alias...", "Create an alias in your shell">>)

test_installation(e) ==
  IF e.version = "zero"
    THEN Returns(TRUE, <<"Testing installation...", "DevKit is working!">>)
  ELSE IF e.version = "nonzero"
    THEN Returns(FALSE, <<"Testing installation...", "DevKit test failed">>)
  ELSE Returns(FALSE, <<"Testing installation...", "Test error">>)

InitSetup ==
  /\ env \in Envs
  /\ step = 0
  /\ success = TRUE
  /\ ContractsInit
  /\ ProcessInit(EmptyDict, EmptyDict)

\* main: print_banner(), success = True, the loop starts
SetupBegin ==
  /\ pc = "idle"
  /\ step = 0
  /\ step' = 1
  /\ success' = TRUE
  /\ stdout' = <<"GenLayer DevKit Setup">>
  /\ pc' = "setup_loop"
  /\ exit_code' = <<>>
  /\ UNCHANGED <<fs, contracts_dir, argv, contract_code, filepath, handle, traceback,
                 registry, fs0, origin, runs, env>>
  /\ UNCHANGED contract_vars

\* One turn of the loop, on the step function's outcome r:
\*   if not step_func(): success = False; print(...); break
Turn(r) ==
  /\ pc = "setup_loop"
  /\ IF r.exc # None
       THEN /\ stdout' = stdout \o r.out
            /\ Raise(r.exc)
            /\ UNCHANGED <<step, success>>
     ELSE IF r.ok
       THEN /\ stdout' = stdout \o r.out
            /\ step' = step + 1
            /\ pc' = IF step = Len(steps) THEN "setup_banner" ELSE "setup_loop"
            /\ UNCHANGED <<success, exit_code, traceback>>
     ELSE /\ stdout' = stdout \o r.out \o <<"Setup incomplete", steps[step]>>
          /\ success' = FALSE
          /\ pc' = "setup_banner"
          /\ UNCHANGED <<step, exit_code, traceback>>
  /\ UNCHANGED <<fs, contracts_dir, argv, contract_code, filepath, handle,
                 registry, fs0, origin, runs, env>>
  /\ UNCHANGED contract_vars

CheckPython == step = 1 /\ Turn(check_python(env))

InstallDependencies == step = 2 /\ Turn(install_dependencies(env))

MakeExecutable == step = 3 /\ Turn(make_executable(env))

CreateAlias == step = 4 /\ Turn(create_alias(env))

TestInstallation == step = 5 /\ Turn(test_installation(env))

\* if success: print_next_steps() else: print(...)
SetupFinish ==
  /\ pc = "setup_banner"
  /\ stdout' = Append(stdout, IF success THEN "Setup Complete!"
                              ELSE "Setup encountered issues")
  /\ Return
  /\ UNCHANGED <<fs, contracts_dir, argv, contract_code, filepath, handle,
                 registry, fs0, origin, runs>>
  /\ UNCHANGED <<setup_vars, contract_vars>>

NextSetup ==
  \/ SetupBegin
  \/ CheckPython
  \/ InstallDependencies
  \/ MakeExecutable
  \/ CreateAlias
  \/ TestInstallation
  \/ SetupFinish

SpecSetup == InitSetup /\ [][NextSetup]_vars

\* The first lines of the step functions, in the order of steps.
Headings ==
  <<"Checking Python version...", "Installing dependencies...",
    "Setting up executable...", "Setting up alias...", "Testing installation...">>

\* The steps called so far, by their first lines, in the order called.
Called ==
  SelectSeq(stdout, LAMBDA line : \E k \in 1..Len(Headings) : line = Headings[k])

\* What the step function of steps[k] does on this machine.
Outcome(k) ==
  CASE k = 1 -> check_python(env)
    [] k = 2 -> install_dependencies(env)
    [] k = 3 -> make_executable(env)
    [] k = 4 -> create_alias(env)
    [] k = 5 -> test_installation(env)

ReturnedTrue(k) == Outcome(k).exc = None /\ Outcome(k).ok

Banners ==
  SelectSeq(stdout, LAMBDA line : line \in {"Setup Complete!", "Setup encountered issues"})

SetupDone == pc = "idle" /\ step > 0

\* The steps are called in the order of steps, none after one that did not
\* return True.
StepsInOrder ==
  /\ Called = SubSeq(Headings, 1, Len(Called))
  /\ \A k \in 1..Len(Called) : k < Len(Called) => ReturnedTrue(k)

\* A run that ends by returning from main prints one banner, the next-steps
\* banner when all five steps returned True and the other one otherwise.
OneBannerWhenMainReturns ==
  (SetupDone /\ traceback = None) =>
    Banners = IF \A k \in 1..Len(steps) : ReturnedTrue(k)
                THEN <<"Setup Complete!">> ELSE <<"Setup encountered issues">>

\* C16: the five steps run in the order of steps and none runs after a step
\* that returned False; every run prints exactly one banner, the next-steps
\* banner if and only if all five steps returned True, and otherwise the
\* 'Setup encountered issues' banner.
C16_StepsInOrderOneBanner ==
  /\ StepsInOrder
  /\ SetupDone =>
       Banners = IF \A k \in 1..Len(steps) : ReturnedTrue(k)
                   THEN <<"Setup Complete!">> ELSE <<"Setup encountered issues">>

-----------------------------------------------------------------------------
(* The contract of the defi template: deposit, withdraw, get_balance.      *)

\* gl.message_sender_address
Senders == {"alice", "bob"}

\* Values of amount: negative, zero and positive integers.
Amounts == (0 - MaxAmount)..MaxAmount

\* d[k] = v on a dict
Put(d, k, v) == [x \in DOMAIN d \cup {k} |-> IF x = k THEN v ELSE d[x]]

\* d.get(k, default)
Get(d, k, default) == IF k \in DOMAIN d THEN d[k] ELSE default

\* No command runs and the setup script does not run: only a contract acts.
InitContracts == SetupIdle /\ ContractsInit /\ ProcessInit(EmptyDict, EmptyDict)

\* A transaction is sent.
Call == calls < MaxCalls /\ calls' = calls + 1

\* A withdraw that leaves total_supply as it is.
Withdraw_KeepsSupply(user, amount) ==
  /\ Call
  /\ IF user \notin DOMAIN balances \/ balances[user] < amount
       THEN /\ ret' = [msg |-> "Insufficient balance"]
            /\ UNCHANGED <<balances, total_supply>>
       ELSE /\ balances' = Put(balances, user, balances[user] - amount)
            /\ UNCHANGED total_supply
            /\ ret' = [msg |-> "Withdrawn", amount |-> amount]
  /\ UNCHANGED <<now, dao_vars, insurance_vars, cli_vars, setup_vars>>

Deposit(user, amount) ==
  /\ Call
  /\ LET known == IF user \notin DOMAIN balances THEN Put(balances, user, 0)
                  ELSE balances
     IN  balances' = Put(known, user, known[user] + amount)
  /\ total_supply' = total_supply + amount
  /\ ret' = [msg |-> "Deposited", amount |-> amount]
  /\ UNCHANGED <<now, dao_vars, insurance_vars, cli_vars, setup_vars>>

Withdraw(user, amount) ==
  /\ Call
  /\ IF user \notin DOMAIN balances \/ balances[user] < amount
       THEN /\ ret' = [msg |-> "Insufficient balance"]
            /\ UNCHANGED <<balances, total_supply>>
       ELSE /\ balances' = Put(balances, user, balances[user] - amount)
            /\ total_supply' = total_supply - amount
            /\ ret' = [msg |-> "Withdrawn", amount |-> amount]
  /\ UNCHANGED <<now, dao_vars, insurance_vars, cli_vars, setup_vars>>

\* A view: it returns and changes nothing.
GetBalance(address) ==
  /\ Call
  /\ ret' = [msg |-> "balance", amount |-> Get(balances, address, 0)]
  /\ UNCHANGED <<balances, total_supply>>
  /\ UNCHANGED <<now, dao_vars, insurance_vars, cli_vars, setup_vars>>

NextDefi ==
  \/ \E user \in Senders, amount \in Amounts : Deposit(user, amount)
  \/ \E user \in Senders, amount \in Amounts : Withdraw(user, amount)
  \/ \E address \in Senders : GetBalance(address)

SpecDefi == InitContracts /\ [][NextDefi]_vars

\* The sum of the values of a dict.
RECURSIVE SumOf(_)
SumOf(d) ==
  IF DOMAIN d = {} THEN 0
  ELSE LET k == CHOOSE k \in DOMAIN d : TRUE
       IN  d[k] + SumOf([x \in DOMAIN d \ {k} |-> d[x]])

\* C17: in the contract of the defi template, total_supply is the sum of the
\* entries of balances after any deposits and withdrawals, and a withdraw that
\* returns "Insufficient balance" leaves balances and total_supply as they
\* were.
C17_SupplyIsSumOfBalances ==
  /\ [](total_supply = SumOf(balances))
  /\ [][ret'.msg = "Insufficient balance" => UNCHANGED <<balances, total_supply>>]_vars

C17_Witness ==
  /\ ret.msg = "Insufficient balance"
  /\ DOMAIN balances = Senders
  /\ balances["alice"] = 2
  /\ balances["bob"] = 0 - 1
  /\ total_supply = 1

-----------------------------------------------------------------------------
(* SimpleDAO, src/devkit_examples.py: join_dao, create_proposal, vote,     *)
(* finalize_proposal and the two views.                                    *)

\* self.voting_period = 86400
voting_period == 86400

\* The decimal digits of n >= 0, at least `width` of them: f"{n:0<width>d}"
RECURSIVE Decimal(_, _)
Decimal(n, width) ==
  LET digit == <<"0", "1", "2", "3", "4", "5", "6", "7", "8", "9">>[(n % 10) + 1]
  IN  IF n < 10 /\ width <= 1 THEN <<digit>>
      ELSE Append(Decimal(n \div 10, width - 1), digit)

\* f"PROP-{self.proposal_counter:03d}"
ProposalId(n) == <<"P", "R", "O", "P", "-">> \o Decimal(n, 3)

\* Values of proposal_id: the ids given out so far and one never given out.
ProposalIds == {ProposalId(n) : n \in 1..proposal_counter} \cup {ProposalId(999)}

\* The block of the next transaction is later: by a second, by a voting period.
Advance(seconds) ==
  /\ Call
  /\ now' = now + seconds
  /\ UNCHANGED <<ret, defi_vars, dao_vars, insurance_vars, cli_vars, setup_vars>>

JoinDao(member) ==
  /\ Call
  /\ IF member \in DOMAIN members
       THEN /\ ret' = [msg |-> "Already a member"]
            /\ UNCHANGED members
       ELSE /\ members' = Put(members, member, 1)
            /\ ret' = [msg |-> "Joined DAO. Voting power: 1"]
  /\ UNCHANGED <<proposals, proposal_counter>>
  /\ UNCHANGED <<now, defi_vars, insurance_vars, cli_vars, setup_vars>>

CreateProposal(creator, title, description) ==
  /\ Call
  /\ IF creator \notin DOMAIN members
       THEN /\ ret' = [msg |-> "ERROR: Must be a DAO member to create proposals"]
            /\ UNCHANGED <<proposals, proposal_counter>>
       ELSE /\ proposal_counter' = proposal_counter + 1
            /\ proposals' =
                 Put(proposals, ProposalId(proposal_counter + 1),
                     [id |-> ProposalId(proposal_counter + 1),
                      title |-> title,
                      description |-> description,
                      creator |-> creator,
                      created_at |-> now,
                      end_time |-> now + voting_period,
                      votes_for |-> 0,
                      votes_against |-> 0,
                      voters |-> EmptyDict,
                      status |-> "active"])
            /\ ret' = [msg |-> "Proposal created", id |-> ProposalId(proposal_counter + 1)]
  /\ UNCHANGED members
  /\ UNCHANGED <<now, defi_vars, insurance_vars, cli_vars, setup_vars>>

\* A vote that does not look whether the voter has voted.
Vote_CountsAgain(voter, proposal_id, support) ==
  /\ Call
  /\ IF voter \notin DOMAIN members
       THEN ret' = [msg |-> "ERROR: Must be a DAO member to vote"] /\ UNCHANGED proposals
     ELSE IF proposal_id \notin DOMAIN proposals
       THEN ret' = [msg |-> "ERROR: Proposal not found"] /\ UNCHANGED proposals
     ELSE IF proposals[proposal_id].status # "active"
       THEN /\ ret' = [msg |-> "ERROR: Proposal is", status |-> proposals[proposal_id].status]
            /\ UNCHANGED proposals
     ELSE IF now > proposals[proposal_id].end_time
       THEN ret' = [msg |-> "ERROR: Voting period ended"] /\ UNCHANGED proposals
     ELSE LET proposal == proposals[proposal_id]
              voting_power == members[voter]
              counted ==
                IF support
                  THEN [proposal EXCEPT !.votes_for = proposal.votes_for + voting_power]
                  ELSE [proposal EXCEPT !.votes_against =
                                           proposal.votes_against + voting_power]
          IN  /\ proposals' =
                   Put(proposals, proposal_id,
                       [counted EXCEPT !.voters = Put(proposal.voters, voter, support)])
              /\ ret' = [msg |-> "Vote recorded", support |-> support]
  /\ UNCHANGED <<members, proposal_counter>>
  /\ UNCHANGED <<now, defi_vars, insurance_vars, cli_vars, setup_vars>>

Vote(voter, proposal_id, support) ==
  /\ Call
  /\ IF voter \notin DOMAIN members
       THEN ret' = [msg |-> "ERROR: Must be a DAO member to vote"] /\ UNCHANGED proposals
     ELSE IF proposal_id \notin DOMAIN proposals
       THEN ret' = [msg |-> "ERROR: Proposal not found"] /\ UNCHANGED proposals
     ELSE IF proposals[proposal_id].status # "active"
       THEN /\ ret' = [msg |-> "ERROR: Proposal is", status |-> proposals[proposal_id].status]
            /\ UNCHANGED proposals
     ELSE IF now > proposals[proposal_id].end_time
       THEN ret' = [msg |-> "ERROR: Voting period ended"] /\ UNCHANGED proposals
     ELSE IF voter \in DOMAIN proposals[proposal_id].voters
       THEN ret' = [msg |-> "ERROR: Already voted"] /\ UNCHANGED proposals
     ELSE LET proposal == proposals[proposal_id]
              voting_power == members[voter]
              counted ==
                IF support
                  THEN [proposal EXCEPT !.votes_for = proposal.votes_for + voting_power]
                  ELSE [proposal EXCEPT !.votes_against =
                                           proposal.votes_against + voting_power]
          IN  /\ proposals' =
                   Put(proposals, proposal_id,
                       [counted EXCEPT !.voters = Put(proposal.voters, voter, support)])
              /\ ret' = [msg |-> "Vote recorded", support |-> support]
  /\ UNCHANGED <<members, proposal_counter>>
  /\ UNCHANGED <<now, defi_vars, insurance_vars, cli_vars, setup_vars>>

FinalizeProposal(proposal_id) ==
  /\ Call
  /\ IF proposal_id \notin DOMAIN proposals
       THEN ret' = [msg |-> "ERROR: Proposal not found"] /\ UNCHANGED proposals
     ELSE IF proposals[proposal_id].status # "active"
       THEN /\ ret' = [msg |-> "ERROR: Proposal already",
                       status |-> proposals[proposal_id].status]
            /\ UNCHANGED proposals
     ELSE IF now <= proposals[proposal_id].end_time
       THEN ret' = [msg |-> "ERROR: Voting period not ended yet"] /\ UNCHANGED proposals
     ELSE LET proposal == proposals[proposal_id]
              status == IF proposal.votes_for > proposal.votes_against
                          THEN "passed" ELSE "rejected"
          IN  /\ proposals' = Put(proposals, proposal_id, [proposal EXCEPT !.status = status])
              /\ ret' = [msg |-> "Proposal finalized", status |-> status,
                         votes_for |-> proposal.votes_for,
                         votes_against |-> proposal.votes_against,
                         total_voters |-> Cardinality(DOMAIN proposal.voters)]
  /\ UNCHANGED <<members, proposal_counter>>
  /\ UNCHANGED <<now, defi_vars, insurance_vars, cli_vars, setup_vars>>

\* The views: get_proposal and list_active_proposals
GetProposal(proposal_id) ==
  /\ Call
  /\ ret' = [msg |-> "proposal", value |-> Get(proposals, proposal_id, EmptyDict)]
  /\ UNCHANGED <<now, defi_vars, dao_vars, insurance_vars, cli_vars, setup_vars>>

ListActiveProposals ==
  /\ Call
  /\ LET ids == [n \in 1..proposal_counter |-> ProposalId(n)]
         active == SelectSeq(ids, LAMBDA id : proposals[id].status = "active")
     IN  ret' = [msg |-> "active",
                 value |-> [k \in 1..Len(active) |->
                              [id |-> active[k],
                               title |-> proposals[active[k]].title,
                               votes_for |-> proposals[active[k]].votes_for,
                               votes_against |-> proposals[active[k]].votes_against,
                               ends_in |-> proposals[active[k]].end_time - now]]]
  /\ UNCHANGED <<now, defi_vars, dao_vars, insurance_vars, cli_vars, setup_vars>>

NextDao ==
  \/ \E seconds \in {1, voting_period} : Advance(seconds)
  \/ \E member \in Senders : JoinDao(member)
  \/ \E creator \in Senders : CreateProposal(creator, "title", "description")
  \/ \E voter \in Senders, proposal_id \in ProposalIds, support \in BOOLEAN :
       Vote(voter, proposal_id, support)
  \/ \E proposal_id \in ProposalIds : FinalizeProposal(proposal_id)
  \/ \E proposal_id \in ProposalIds : GetProposal(proposal_id)
  \/ ListActiveProposals

SpecDao == InitContracts /\ [][NextDao]_vars

\* What vote returns when it rejects the call.
VoteErrors ==
  {"ERROR: Must be a DAO member to vote", "ERROR: Proposal not found",
   "ERROR: Proposal is", "ERROR: Voting period ended", "ERROR: Already voted"}

\* The number of voters of a proposal recorded with this choice.
Recorded(proposal, support) ==
  Cardinality({v \in DOMAIN proposal.voters : proposal.voters[v] = support})

\* C18: in SimpleDAO, with a block timestamp that never decreases, the votes
\* for and against of every proposal are the voters recorded for and against
\* it, so their sum is the number of entries of voters and no member is
\* counted twice; a vote that is rejected changes no tally and no voter
\* record.
C18_TalliesAreVoters ==
  /\ [](\A id \in DOMAIN proposals :
          /\ proposals[id].votes_for + proposals[id].votes_against
               = Cardinality(DOMAIN proposals[id].voters)
          /\ proposals[id].votes_for = Recorded(proposals[id], TRUE)
          /\ proposals[id].votes_against = Recorded(proposals[id], FALSE)
          /\ DOMAIN proposals[id].voters \subseteq DOMAIN members)
  /\ [][ret'.msg \in VoteErrors => UNCHANGED proposals]_vars

C18_Witness ==
  /\ ret.msg = "ERROR: Already voted"
  /\ \E id \in DOMAIN proposals :
       /\ proposals[id].votes_for = 1
       /\ proposals[id].votes_against = 1
       /\ DOMAIN proposals[id].voters = Senders

-----------------------------------------------------------------------------
(* WeatherInsurance, src/devkit_examples.py: create_policy, file_claim and *)
(* the three views.                                                        *)

\* f"POL-{self.policy_counter:04d}"
PolicyId(n) == <<"P", "O", "L", "-">> \o Decimal(n, 4)

\* Values of policy_id: the ids given out so far and one never given out.
PolicyIds == {PolicyId(n) : n \in 1..policy_counter} \cup {PolicyId(9999)}

\* The text file_claim looks for in the weather report.
condition_met_yes ==
  <<"C", "O", "N", "D", "I", "T", "I", "O", "N", "_", "M", "E", "T", ":", " ", "Y", "E", "S">>

\* What the prompt may come back with: the condition met, not met, and met
\* but spelled in lower case.
WeatherReports ==
  { <<"W", "E", "A", "T", "H", "E", "R", ":", " ", "r", "a", "i", "n", "\n">>
      \o condition_met_yes \o <<"\n", "C", "O", "N", "F", "I", "D", "E", "N", "C", "E", ":", " ", "9", "0", "%">>,
    <<"W", "E", "A", "T", "H", "E", "R", ":", " ", "s", "u", "n", "\n",
      "C", "O", "N", "D", "I", "T", "I", "O", "N", "_", "M", "E", "T", ":", " ", "N", "O">>,
    <<"c", "o", "n", "d", "i", "t", "i", "o", "n", "_", "m", "e", "t", ":", " ", "y", "e", "s">> }

\* Values of coverage: a negative one, none, and a positive one.
Coverages == {0 - 1, 0, MaxAmount}

\* The model stops issuing policies at MaxPolicies of them.
CreatePolicy(sender, location, event_date, trigger_condition, coverage) ==
  /\ Call
  /\ policy_counter < MaxPolicies
  /\ policy_counter' = policy_counter + 1
  /\ policies' =
       Put(policies, PolicyId(policy_counter + 1),
           [owner |-> sender,
            location |-> location,
            event_date |-> event_date,
            trigger |-> trigger_condition,
            coverage |-> coverage,
            status |-> "active",
            created_at |-> now])
  /\ ret' = [msg |-> "policy", id |-> PolicyId(policy_counter + 1)]
  /\ UNCHANGED <<claims, total_payouts>>
  /\ UNCHANGED <<now, defi_vars, dao_vars, cli_vars, setup_vars>>

\* The state after file_claim has got its weather report.
Settle(policy_id, weather_report) ==
  LET policy == policies[policy_id]
  IN  IF Contains(weather_report, condition_met_yes)
        THEN /\ policies' =
                  Put(policies, policy_id,
                      Put(Put([policy EXCEPT !.status = "claimed"],
                              "payout", policy.coverage),
                          "weather_report", weather_report))
             /\ total_payouts' = total_payouts + policy.coverage
             /\ claims' =
                  Put(claims, policy_id,
                      [policy_id |-> policy_id,
                       claimed_at |-> now,
                       payout |-> policy.coverage,
                       weather_report |-> weather_report])
             /\ ret' = [msg |-> "CLAIM APPROVED", id |-> policy_id,
                        payout |-> policy.coverage, weather_report |-> weather_report]
        ELSE /\ policies' = Put(policies, policy_id, [policy EXCEPT !.status = "denied"])
             /\ ret' = [msg |-> "CLAIM DENIED", id |-> policy_id,
                        weather_report |-> weather_report]
             /\ UNCHANGED <<claims, total_payouts>>

\* A file_claim that does not look at the status of the policy.
FileClaim_AnyStatus(sender, policy_id) ==
  /\ Call
  /\ IF policy_id \notin DOMAIN policies
       THEN /\ ret' = [msg |-> "ERROR: Policy not found"]
            /\ UNCHANGED <<policies, claims, total_payouts>>
     ELSE IF policies[policy_id].owner # sender
       THEN /\ ret' = [msg |-> "ERROR: Only policy owner can file claims"]
            /\ UNCHANGED <<policies, claims, total_payouts>>
     ELSE \E weather_report \in WeatherReports : Settle(policy_id, weather_report)
  /\ UNCHANGED policy_counter
  /\ UNCHANGED <<now, defi_vars, dao_vars, cli_vars, setup_vars>>

FileClaim(sender, policy_id) ==
  /\ Call
  /\ IF policy_id \notin DOMAIN policies
       THEN /\ ret' = [msg |-> "ERROR: Policy not found"]
            /\ UNCHANGED <<policies, claims, total_payouts>>
     ELSE IF policies[policy_id].status # "active"
       THEN /\ ret' = [msg |-> "ERROR: Policy status is",
                       status |-> policies[policy_id].status]
            /\ UNCHANGED <<policies, claims, total_payouts>>
     ELSE IF policies[policy_id].owner # sender
       THEN /\ ret' = [msg |-> "ERROR: Only policy owner can file claims"]
            /\ UNCHANGED <<policies, claims, total_payouts>>
     ELSE \E weather_report \in WeatherReports : Settle(policy_id, weather_report)
  /\ UNCHANGED policy_counter
  /\ UNCHANGED <<now, defi_vars, dao_vars, cli_vars, setup_vars>>

\* The views: get_policy, get_my_policies and get_stats
GetPolicy(policy_id) ==
  /\ Call
  /\ ret' = [msg |-> "policy details", value |-> Get(policies, policy_id, EmptyDict)]
  /\ UNCHANGED <<now, defi_vars, dao_vars, insurance_vars, cli_vars, setup_vars>>

GetMyPolicies(owner) ==
  /\ Call
  /\ LET ids == [n \in 1..policy_counter |-> PolicyId(n)]
         mine == SelectSeq(ids, LAMBDA id : policies[id].owner = owner)
     IN  ret' = [msg |-> "my policies",
                 value |-> [k \in 1..Len(mine) |->
                              [id |-> mine[k],
                               location |-> policies[mine[k]].location,
                               date |-> policies[mine[k]].event_date,
                               coverage |-> policies[mine[k]].coverage,
                               status |-> policies[mine[k]].status]]]
  /\ UNCHANGED <<now, defi_vars, dao_vars, insurance_vars, cli_vars, setup_vars>>

GetStats ==
  /\ Call
  /\ ret' = [msg |-> "stats",
             total_policies |-> policy_counter,
             active_policies |->
               Cardinality({id \in DOMAIN policies : policies[id].status = "active"}),
             total_claims |-> Cardinality(DOMAIN claims),
             total_payouts |-> total_payouts]
  /\ UNCHANGED <<now, defi_vars, dao_vars, insurance_vars, cli_vars, setup_vars>>

NextInsurance ==
  \/ \E sender \in Senders, coverage \in Coverages :
       CreatePolicy(sender, "Paris", "2025-01-01", "rain", coverage)
  \/ \E sender \in Senders, policy_id \in PolicyIds : FileClaim(sender, policy_id)
  \/ \E policy_id \in PolicyIds : GetPolicy(policy_id)
  \/ \E owner \in Senders : GetMyPolicies(owner)
  \/ GetStats

SpecInsurance == InitContracts /\ [][NextInsurance]_vars

\* What file_claim returns when it rejects the call.
ClaimErrors ==
  {"ERROR: Policy not found", "ERROR: Policy status is",
   "ERROR: Only policy owner can file claims"}

\* The policies whose status is this one.
WithStatus(status) == {id \in DOMAIN policies : policies[id].status = status}

\* C19: in WeatherInsurance a policy pays out at most once: a policy is
\* created active, its status only ever moves from active to claimed or
\* denied, a file_claim that is rejected (policy unknown, not active, or
\* sender not the owner) changes no state of the contract, and total_payouts
\* is always the sum of coverage over the claimed policies, each of which
\* has exactly one entry in claims.
C19_PaysOutAtMostOnce ==
  /\ [][\A id \in DOMAIN policies' :
          IF id \in DOMAIN policies
            THEN policies'[id].status # policies[id].status
                   => /\ policies[id].status = "active"
                      /\ policies'[id].status \in {"claimed", "denied"}
            ELSE policies'[id].status = "active"]_vars
  /\ [][DOMAIN policies \subseteq DOMAIN policies']_vars
  /\ [][ret'.msg \in ClaimErrors => UNCHANGED insurance_vars]_vars
  /\ [](/\ total_payouts
             = SumOf([id \in WithStatus("claimed") |-> policies[id].coverage])
        /\ DOMAIN claims = WithStatus("claimed"))

C19_Witness ==
  /\ ret.msg = "ERROR: Policy status is"
  /\ ret.status = "claimed"
  /\ WithStatus("denied") # {}
  /\ \E id \in WithStatus("claimed") : policies[id].coverage = MaxAmount
  /\ total_payouts = MaxAmount
====
